---- MODULE Spec2Model ----
(***************************************************************************)
(* Model of the syllabus -> roadmap -> lesson plan -> lecture notes        *)
(* pipeline of src/app2.py.                                                *)
(*                                                                         *)
(* Text is a sequence of one-character strings.  A roadmap text is held as *)
(* the sequence of its lines (the result of roadmap_text.split("\n")).     *)
(* A node id "T1.2" is the sequence of its numbers <<1, 2>>: the id is     *)
(* always produced by f"T{a}.{b}" from int() values, which is one-to-one   *)
(* on the number sequence.  Python dicts that are shared by reference      *)
(* (the dicts built by parse_roadmap) live in the heap `nodes`, and are    *)
(* named by the number of the line that created them.                     *)
(***************************************************************************)
EXTENDS Integers, Sequences, FiniteSets, TLC

VARIABLES
    \* parse_roadmap (src/app2.py:79-160)
    lines,                   \* roadmap_text.split("\n")
    line_no,                 \* position of the `for line in lines` loop
    nodes,                   \* heap of the topic dicts created so far
    topics,                  \* roadmap["topics"]: references into nodes
    current_topic,
    current_subtopic,
    current_subsubtopic,
    current_subsubsubtopic,
    \* generation (src/app2.py:30, 226-324, 671-778)
    generation_cache,        \* prompt -> stored text
    subject,                 \* st.session_state.subject
    contexts,                \* heap of the context dicts handed down the recursion
    pc,                      \* position of the running handler
    work,                    \* pending recursive calls, next call first
    lesson_plan,             \* topic_json of every node generated so far
    processed_ids,
    total_items,
    item_count,
    progress,                \* values handed to the progress bar, in order
    document_text,
    log,                     \* one record per node visit (prompt, outcome)
    llm_calls,               \* prompts handed to model.generate_content, in order
    last,                    \* the most recent call of a generate_* function
    \* the session and the files written (src/app2.py:326-334, 368-514, 780-870)
    session_state,           \* st.session_state: the keys the handlers set, with their values
    json_file,               \* lesson_plan.json
    docx                     \* the document built last: its elements in order

parseVars == <<lines, line_no, nodes, topics, current_topic, current_subtopic,
               current_subsubtopic, current_subsubsubtopic>>
genVars == <<generation_cache, subject, contexts, pc, work, lesson_plan, processed_ids, total_items,
             item_count, progress, document_text, log, llm_calls, last>>
vars == <<lines, line_no, nodes, topics, current_topic, current_subtopic,
          current_subsubtopic, current_subsubsubtopic, generation_cache, subject, contexts, pc, work,
          lesson_plan, processed_ids, total_items, item_count, progress,
          document_text, log, llm_calls, last, session_state, json_file, docx>>
outVars == <<session_state, json_file, docx>>

\* no key set in the session, no file written
NoFile == [exists |-> FALSE, text |-> <<>>]
NoOutput ==
    /\ session_state = <<>>
    /\ json_file = NoFile
    /\ docx = <<>>

\* Python's None where a reference to a topic dict is expected (references are
\* line numbers, from 1)
None == 0

(***************************************************************************)
(* Bounds of the model.                                                    *)
(***************************************************************************)
\* number of lines of a roadmap text given to parse_roadmap alone
MaxLines == 4
\* number of lines of a roadmap text taken through both generation stages
MaxRoadmapLines == 4
\* number of calls of the generate_* functions in the cache specification
MaxCalls == 3

(***************************************************************************)
(* Python string helpers.                                                  *)
(***************************************************************************)
\* A character is a one-character string when it is printable ASCII, a line
\* break, a tab, a carriage return or a form feed; every other character is
\* named by its code point, "U+" and four or more upper-case hex digits (the
\* backquote is named "U+0060").
Printable ==
    << " ", "!", "\"", "#", "$", "%", "&", "'", "(", ")", "*", "+",
       ",", "-", ".", "/", "0", "1", "2", "3", "4", "5", "6", "7",
       "8", "9", ":", ";", "<", "=", ">", "?", "@", "A", "B", "C",
       "D", "E", "F", "G", "H", "I", "J", "K", "L", "M", "N", "O",
       "P", "Q", "R", "S", "T", "U", "V", "W", "X", "Y", "Z", "[",
       "\\", "]", "^", "_", "U+0060", "a", "b", "c", "d", "e", "f", "g",
       "h", "i", "j", "k", "l", "m", "n", "o", "p", "q", "r", "s",
       "t", "u", "v", "w", "x", "y", "z", "{", "|", "}", "~" >>

HexDigits ==
    <<"0", "1", "2", "3", "4", "5", "6", "7", "8", "9", "A", "B", "C", "D", "E", "F">>
LowerHex ==
    <<"0", "1", "2", "3", "4", "5", "6", "7", "8", "9", "a", "b", "c", "d", "e", "f">>

IsHex(h) == \E k \in 1..16 : HexDigits[k] = h \/ LowerHex[k] = h
HexVal(h) == (CHOOSE k \in 1..16 : HexDigits[k] = h \/ LowerHex[k] = h) - 1

\* the number written by the hex digits of the string s
RECURSIVE HexNumber(_)
HexNumber(s) ==
    IF Len(s) = 0 THEN 0
    ELSE 16 * HexNumber(SubSeq(s, 1, Len(s) - 1)) + HexVal(SubSeq(s, Len(s), Len(s)))

\* n in hex digits, at least `width` of them, as a string
RECURSIVE HexText(_, _)
HexText(n, width) ==
    IF n < 16 /\ width <= 1 THEN HexDigits[n + 1]
    ELSE HexText(n \div 16, width - 1) \o HexDigits[(n % 16) + 1]

\* the code point of a character named "U+XXXX"
Code(c) == HexNumber(SubSeq(c, 3, Len(c)))

\* ord(c)
Ord(c) ==
    IF Len(c) > 1 THEN Code(c)
    ELSE CASE c = "\t" -> 9 [] c = "\n" -> 10 [] c = "\f" -> 12 [] c = "\r" -> 13
           [] OTHER -> 31 + (CHOOSE k \in 1..95 : Printable[k] = c)

\* chr(n)
Chr(n) ==
    IF n \in 32..126 THEN Printable[n - 31]
    ELSE CASE n = 9 -> "\t" [] n = 10 -> "\n" [] n = 12 -> "\f" [] n = 13 -> "\r"
           [] OTHER -> "U+" \o HexText(n, 4)

\* the code points of the characters 0 of the decimal digit blocks of
\* Unicode 14 (category Nd): \d of a str pattern matches each of the ten
\* characters from such a point, and int() reads them
DigitZeros ==
    { 48, 1632, 1776, 1984, 2406, 2534, 2662, 2790, 2918, 3046,
      3174, 3302, 3430, 3558, 3664, 3792, 3872, 4160, 4240, 6112,
      6160, 6470, 6608, 6784, 6800, 6992, 7088, 7232, 7248, 42528,
      43216, 43264, 43472, 43504, 43600, 44016, 65296, 66720, 68912, 69734,
      69872, 69942, 70096, 70384, 70736, 70864, 71248, 71360, 71472, 71904,
      72016, 72784, 73040, 73120, 92768, 92864, 93008, 120782, 120792, 120802,
      120812, 120822, 123200, 123632, 125264, 130032 }

AsciiDigits == {"0", "1", "2", "3", "4", "5", "6", "7", "8", "9"}

\* the characters \d matches
Digits == AsciiDigits \cup {Chr(z + k) : z \in DigitZeros \ {48}, k \in 0..9}

\* c is one of Digits
IsDigit(c) ==
    IF Len(c) = 1 THEN c \in AsciiDigits
    ELSE \E z \in DigitZeros : Code(c) \in z..(z + 9)

\* the code points str.isspace accepts: what str.strip() removes and \s
\* matches
SpaceCodes ==
    {9, 10, 11, 12, 13, 28, 29, 30, 31, 32, 133, 160, 5760} \cup (8192..8202)
        \cup {8232, 8233, 8239, 8287, 12288}

IsSpace(c) ==
    IF Len(c) = 1 THEN c \in {" ", "\n", "\t", "\r", "\f"} ELSE Code(c) \in SpaceCodes

RECURSIVE LStrip(_)
LStrip(s) ==
    IF s # <<>> /\ IsSpace(Head(s)) THEN LStrip(Tail(s)) ELSE s

RECURSIVE RStrip(_)
RStrip(s) ==
    IF s # <<>> /\ IsSpace(s[Len(s)]) THEN RStrip(SubSeq(s, 1, Len(s) - 1)) ELSE s

\* str.strip()
Strip(s) == RStrip(LStrip(s))

\* s.startswith(p)
StartsWith(s, p) == Len(s) >= Len(p) /\ SubSeq(s, 1, Len(p)) = p

\* s.replace(old, new): leftmost non-overlapping occurrences, old non-empty
RECURSIVE Replace(_, _, _)
Replace(s, old, new) ==
    IF s = <<>> THEN <<>>
    ELSE IF StartsWith(s, old)
         THEN new \o Replace(SubSeq(s, Len(old) + 1, Len(s)), old, new)
         ELSE <<Head(s)>> \o Replace(Tail(s), old, new)

\* the value int() gives the digit
DigitVal(c) ==
    IF Len(c) = 1
    THEN CASE c = "0" -> 0 [] c = "1" -> 1 [] c = "2" -> 2 [] c = "3" -> 3
           [] c = "4" -> 4 [] c = "5" -> 5 [] c = "6" -> 6 [] c = "7" -> 7
           [] c = "8" -> 8 [] c = "9" -> 9
    ELSE Code(c) - (CHOOSE z \in DigitZeros : Code(c) \in z..(z + 9))

\* sys.int_info.default_max_str_digits of Python 3.11: int() of a longer
\* text raises ValueError
MaxStrDigits == 4300
IntRaises(ds) == Len(ds) > MaxStrDigits

\* int(group): the value of a run of decimal digits of at most MaxStrDigits
\* characters
RECURSIVE IntOf(_)
IntOf(ds) ==
    IF ds = <<>> THEN 0
    ELSE 10 * IntOf(SubSeq(ds, 1, Len(ds) - 1)) + DigitVal(ds[Len(ds)])

\* length of the longest prefix of s matched by \d+ (0: no match)
DigitRun(s) ==
    CHOOSE n \in 0..Len(s) :
        /\ \A j \in 1..n : IsDigit(s[j])
        /\ n = Len(s) \/ ~IsDigit(s[n + 1])

\* (\d+)(\.(\d+))* at the start of s: the numbers int() reads from the
\* groups, whether one of the groups is too long for int() (raises), and the
\* rest of s
RECURSIVE PathGroups(_)
PathGroups(s) ==
    LET Groups(n) ==
            LET digits == SubSeq(s, 1, n)
                rest == SubSeq(s, n + 1, Len(s))
                long == IntRaises(digits)
                Read(num) ==
                    IF rest # <<>> /\ Head(rest) = "." /\ DigitRun(Tail(rest)) > 0
                    THEN LET more == PathGroups(Tail(rest))
                         IN  [ok |-> TRUE,
                              nums |-> num \o more.nums,
                              groups |-> 1 + more.groups,
                              raises |-> long \/ more.raises,
                              rest |-> more.rest]
                    ELSE [ok |-> TRUE, nums |-> num, groups |-> 1, raises |-> long,
                          rest |-> rest]
            IN  IF n = 0
                THEN [ok |-> FALSE, nums |-> <<>>, groups |-> 0, raises |-> FALSE, rest |-> s]
                ELSE Read(IF long THEN <<>> ELSE <<IntOf(digits)>>)
    IN  Groups(DigitRun(s))

\* re.match(r"^T(\d+)(\.(\d+)){groups-1}:\s*(.+)$", line): whether it matched
\* (ok), the int() of the numeric groups, whether an int() raises, and the
\* text of the last group
NoMatch == [ok |-> FALSE, nums |-> <<>>, raises |-> FALSE, desc |-> <<>>]

ReMatch(line, groups) ==
    LET Matched(p) ==
            IF ~p.ok \/ p.groups # groups THEN NoMatch
            ELSE IF p.rest = <<>> \/ Head(p.rest) # ":" THEN NoMatch
            ELSE LET after == Tail(p.rest)
                     Group(stripped) ==
                         [ok |-> TRUE,
                          nums |-> p.nums,
                          raises |-> p.raises,
                          desc |-> IF stripped # <<>> THEN stripped
                                   ELSE <<after[Len(after)]>>]
                 IN  IF after = <<>> THEN NoMatch ELSE Group(LStrip(after))
    IN  IF line = <<>> \/ Head(line) # "T" THEN NoMatch
        ELSE Matched(PathGroups(Tail(line)))

main_match(line) == ReMatch(line, 1)
sub_match(line) == ReMatch(line, 2)
subsub_match(line) == ReMatch(line, 3)
subsubsub_match(line) == ReMatch(line, 4)

(***************************************************************************)
(* parse_roadmap.  The state of the loop is the record p of the roadmap    *)
(* dict and the four tracked current nodes; r is the reference of the dict *)
(* the line creates.                                                       *)
(***************************************************************************)
NewNode(id, desc, key) ==
    [id |-> id, description |-> desc, key |-> key, kids |-> <<>>]

\* lines 83, 91-94; raised: an int() of the loop has raised ValueError
EmptyParse ==
    [nodes |-> <<>>, topics |-> <<>>, current_topic |-> None,
     current_subtopic |-> None, current_subsubtopic |-> None,
     current_subsubsubtopic |-> None, raised |-> FALSE]

\* the int() calls of a branch of the loop raise ValueError (lines 107,
\* 119-120, 132-134, 145-148): the loop ends there
Raised(p) == [p EXCEPT !.raised = TRUE]

\* lines 106-117
AddTopic(p, r, m) ==
    IF m.raises THEN Raised(p) ELSE
    [p EXCEPT !.nodes = (r :> NewNode(m.nums, m.desc, "subtopics")) @@ p.nodes,
              !.topics = Append(p.topics, r),
              !.current_topic = r,
              !.current_subtopic = None,
              !.current_subsubtopic = None,
              !.current_subsubsubtopic = None]

\* parent[key].append(child) when the tracked parent is set (lines 127-128,
\* 141-142, 155-156)
AttachTo(heap, parent, r) ==
    IF parent # None THEN [heap EXCEPT ![parent].kids = Append(@, r)] ELSE heap

\* a plausible slip: a subtopic line leaves the tracked deeper nodes as they are
AddSubtopicKeepsDeeper(p, r, m) ==
    [p EXCEPT !.nodes = AttachTo((r :> NewNode(m.nums, m.desc, "subsubtopics")) @@ p.nodes,
                                 p.current_topic, r),
              !.current_subtopic = r]

\* lines 118-130
AddSubtopic(p, r, m) ==
    IF m.raises THEN Raised(p) ELSE
    [p EXCEPT !.nodes = AttachTo((r :> NewNode(m.nums, m.desc, "subsubtopics")) @@ p.nodes,
                                 p.current_topic, r),
              !.current_subtopic = r,
              !.current_subsubtopic = None,
              !.current_subsubsubtopic = None]

\* lines 131-143
AddSubsubtopic(p, r, m) ==
    IF m.raises THEN Raised(p) ELSE
    [p EXCEPT !.nodes = AttachTo((r :> NewNode(m.nums, m.desc, "subsubsubtopics")) @@ p.nodes,
                                 p.current_subtopic, r),
              !.current_subsubtopic = r,
              !.current_subsubsubtopic = None]

\* lines 144-156
AddSubsubsubtopic(p, r, m) ==
    IF m.raises THEN Raised(p) ELSE
    [p EXCEPT !.nodes = AttachTo((r :> NewNode(m.nums, m.desc, "details")) @@ p.nodes,
                                 p.current_subsubtopic, r),
              !.current_subsubsubtopic = r]

\* a plausible slip: the warning branch also forgets the tracked nodes
UnparsedLineResets(p, line) ==
    [p EXCEPT !.current_topic = None, !.current_subtopic = None,
              !.current_subsubtopic = None, !.current_subsubsubtopic = None]

\* lines 157-158: the warning is printed and nothing else happens
UnparsedLine(p, line) == p

\* which branch of the loop body a raw line takes (lines 97-106, 118, 131, 144, 157)
LineKind(raw) ==
    LET Kind(line) ==
            IF line = <<>> THEN "blank"
            ELSE IF main_match(line).ok THEN "main"
            ELSE IF sub_match(line).ok THEN "sub"
            ELSE IF subsub_match(line).ok THEN "subsub"
            ELSE IF subsubsub_match(line).ok THEN "subsubsub"
            ELSE "else"
    IN  Kind(Strip(raw))

\* one iteration of `for line in lines` (lines 96-158)
ParseLine(p, r, raw) ==
    LET Branch(line, kind) ==
            CASE kind = "blank" -> p
              [] kind = "main" -> AddTopic(p, r, main_match(line))
              [] kind = "sub" -> AddSubtopic(p, r, sub_match(line))
              [] kind = "subsub" -> AddSubsubtopic(p, r, subsub_match(line))
              [] kind = "subsubsub" -> AddSubsubsubtopic(p, r, subsubsub_match(line))
              [] OTHER -> UnparsedLine(p, line)
    IN  Branch(Strip(raw), LineKind(raw))

\* the loop ends at the last line, or where an int() raises
RECURSIVE ParseFrom(_, _, _)
ParseFrom(p, ls, i) ==
    IF i > Len(ls) \/ p.raised THEN p ELSE ParseFrom(ParseLine(p, i, ls[i]), ls, i + 1)

\* parse_roadmap(roadmap_text), lines 79-160
parse_roadmap(ls) == ParseFrom(EmptyParse, ls, 1)

\* the dict structure below reference r, as nested values
RECURSIVE Deref(_, _)
Deref(heap, r) ==
    IF r = None THEN None
    ELSE [id |-> heap[r].id, description |-> heap[r].description, key |-> heap[r].key,
          kids |-> [k \in 1..Len(heap[r].kids) |-> Deref(heap, heap[r].kids[k])]]

\* the value of roadmap["topics"]
Forest(heap, tops) == [k \in 1..Len(tops) |-> Deref(heap, tops[k])]

\* references of the dicts reachable from roadmap["topics"]
RECURSIVE Below(_, _)
Below(heap, r) ==
    {r} \cup UNION {Below(heap, heap[r].kids[k]) : k \in 1..Len(heap[r].kids)}

InForest(heap, tops) == UNION {Below(heap, tops[k]) : k \in 1..Len(tops)}

(***************************************************************************)
(* Inputs of the parser: line i of a text is one of LineChoices(i).  The   *)
(* description of line i is the letter Word(i), so that the line a node    *)
(* came from can be read off its description.                              *)
(***************************************************************************)
Letters == <<"a", "b", "c", "d", "e", "f", "g", "h">>
Word(i) == <<Letters[i]>>

Dot(a, b) == a \o <<".">> \o b

\* the numeric paths written on the lines
Paths ==
    { <<"1">>, <<"0", "1">>,
      Dot(<<"1">>, <<"1">>), Dot(<<"2">>, <<"1">>),
      Dot(Dot(<<"1">>, <<"1">>), <<"1">>),
      Dot(Dot(Dot(<<"1">>, <<"1">>), <<"1">>), <<"1">>) }

\* a line no pattern matches (a 5-level path), and a line of white space
OtherLines ==
    { <<"T", "1", ".", "2", ".", "3", ".", "4", ".", "5", ":", " ", "x">>,
      <<" ">> }

\* a line with a path, indented, described by `word`
PathLine(path, word) == <<" ", "T">> \o path \o <<":", " ">> \o word

\* a text of n lines: line i carries one of `paths`, or is one of `others`
TextsOf(n, paths, others) ==
    { [i \in 1..n |-> IF c[i] \in others THEN c[i] ELSE PathLine(c[i], Word(i))] :
        c \in [1..n -> paths \cup others] }

PState ==
    [nodes |-> nodes, topics |-> topics, current_topic |-> current_topic,
     current_subtopic |-> current_subtopic, current_subsubtopic |-> current_subsubtopic,
     current_subsubsubtopic |-> current_subsubsubtopic, raised |-> pc = "parse_raised"]

IdleGen ==
    /\ generation_cache = <<>>
    /\ subject = <<"S">>
    /\ contexts = <<>>
    /\ pc = "parse"
    /\ work = <<>>
    /\ lesson_plan = <<>>
    /\ processed_ids = {}
    /\ total_items = 0
    /\ item_count = 0
    /\ progress = <<>>
    /\ document_text = <<>>
    /\ log = <<>>
    /\ llm_calls = <<>>
    /\ last = <<>>
    /\ NoOutput

InitParse ==
    /\ lines \in TextsOf(MaxLines, Paths, OtherLines)
    /\ line_no = 1
    /\ nodes = EmptyParse.nodes
    /\ topics = EmptyParse.topics
    /\ current_topic = None
    /\ current_subtopic = None
    /\ current_subsubtopic = None
    /\ current_subsubsubtopic = None
    /\ IdleGen

\* the loop body on the next line, when it takes branch `kind`
ParseStep(kind) ==
    /\ pc = "parse"
    /\ line_no <= Len(lines)
    /\ LineKind(lines[line_no]) = kind
    /\ LET Becomes(q) ==
               /\ nodes' = q.nodes
               /\ topics' = q.topics
               /\ current_topic' = q.current_topic
               /\ current_subtopic' = q.current_subtopic
               /\ current_subsubtopic' = q.current_subsubtopic
               /\ current_subsubsubtopic' = q.current_subsubsubtopic
               /\ line_no' = IF q.raised THEN line_no ELSE line_no + 1
               /\ pc' = IF q.raised THEN "parse_raised" ELSE pc
       IN  Becomes(ParseLine(PState, line_no, lines[line_no]))
    /\ UNCHANGED <<lines, generation_cache, subject, contexts, work, lesson_plan,
                   processed_ids, total_items, item_count, progress, document_text, log,
                   llm_calls, last, outVars>>

BlankLine == ParseStep("blank")
MainTopicLine == ParseStep("main")
SubtopicLine == ParseStep("sub")
SubsubtopicLine == ParseStep("subsub")
SubsubsubtopicLine == ParseStep("subsubsub")
WarningLine == ParseStep("else")

NextParse ==
    \/ BlankLine
    \/ MainTopicLine
    \/ SubtopicLine
    \/ SubsubtopicLine
    \/ SubsubsubtopicLine
    \/ WarningLine

SpecParse == InitParse /\ [][NextParse]_vars

(***************************************************************************)
(* Claims about parse_roadmap, checked under SpecParse.                    *)
(***************************************************************************)
\* id without its last component
IdPrefix(id) == SubSeq(id, 1, Len(id) - 1)

\* the part of the text the loop has consumed
Consumed == SubSeq(lines, 1, line_no - 1)

ParseDone == pc = "parse" /\ line_no > Len(lines)

\* C5: every node of the forest that has a parent carries an id whose
\* components, the last one removed, are the id of that parent (a line whose
\* path does not continue the tracked ancestor is left out of the forest).
C5_ParentPrefix ==
    \A r \in InForest(nodes, topics) :
        \A k \in 1..Len(nodes[r].kids) :
            IdPrefix(nodes[nodes[r].kids[k]].id) = nodes[r].id

\* a line the warning branch takes
IsUnparsed(raw) == LineKind(raw) = "else"
IsParsed(raw) == ~IsUnparsed(raw)

DerefOpt(heap, r) == IF r = None THEN <<>> ELSE <<Deref(heap, r)>>

\* C6: a line that matches none of the four patterns leaves the result of
\* parse_roadmap as it is without that line: after any number of lines, the
\* forest and the four tracked current nodes are those obtained from the
\* consumed lines with the unmatched ones taken out.
C6_UnmatchedLineIsInert ==
    pc = "parse" =>
        LET q == parse_roadmap(SelectSeq(Consumed, IsParsed))
        IN  /\ Forest(nodes, topics) = Forest(q.nodes, q.topics)
            /\ DerefOpt(nodes, current_topic) = DerefOpt(q.nodes, q.current_topic)
            /\ DerefOpt(nodes, current_subtopic) = DerefOpt(q.nodes, q.current_subtopic)
            /\ DerefOpt(nodes, current_subsubtopic)
                   = DerefOpt(q.nodes, q.current_subsubtopic)
            /\ DerefOpt(nodes, current_subsubsubtopic)
                   = DerefOpt(q.nodes, q.current_subsubsubtopic)

\* an unmatched line stands between the line of a node and the line of one of
\* its children, and the whole text has been parsed
C6_Witness ==
    /\ ParseDone
    /\ \E r \in InForest(nodes, topics) :
         \E k \in 1..Len(nodes[r].kids) :
           \E i \in 1..Len(lines) :
              /\ r < i
              /\ i < nodes[r].kids[k]
              /\ IsUnparsed(lines[i])

\* C7: no two nodes of the forest carry the same id.
C7_UniqueIds ==
    \A r1, r2 \in InForest(nodes, topics) :
        r1 # r2 => nodes[r1].id # nodes[r2].id

(***************************************************************************)
(* Python dicts as insertion-ordered sequences of <<key, value>> pairs.    *)
(***************************************************************************)
DictHas(d, k) == \E i \in 1..Len(d) : d[i][1] = k

\* d[k] = v
DictSet(d, k, v) ==
    IF DictHas(d, k)
    THEN [i \in 1..Len(d) |-> IF d[i][1] = k THEN <<k, v>> ELSE d[i]]
    ELSE Append(d, <<k, v>>)

\* d.update(e)
RECURSIVE DictUpdate(_, _)
DictUpdate(d, e) ==
    IF e = <<>> THEN d ELSE DictUpdate(DictSet(d, Head(e)[1], Head(e)[2]), Tail(e))

DictKeys(d) == {d[i][1] : i \in 1..Len(d)}
DictValues(d) == {d[i][2] : i \in 1..Len(d)}

\* the dict a context reference names; None names no dict (falsy, like {})
ContextOf(heap, c) == IF c = None THEN <<>> ELSE heap[c]

(***************************************************************************)
(* Prompts.  A prompt string is held as the record of the values its        *)
(* f-string interpolates, in one shape for the three builders; the fixed   *)
(* text between them is the same for every prompt of a kind.               *)
(***************************************************************************)
\* str(x) of a looked-up lesson-plan entry inside an f-string
NoneEntry == [none |-> TRUE, text |-> <<>>]
SomeEntry(t) == [none |-> FALSE, text |-> t]
PyStr(entry) == IF entry.none THEN <<"N", "o", "n", "e">> ELSE entry.text

\* lines 191-196: the depth-banded instruction
FocusOf(depth) ==
    IF depth = 1 THEN "overview"
    ELSE IF depth = 2 THEN "elaborate"
    ELSE IF depth >= 3 THEN "deep-dive"
    ELSE "none"

\* lines 37-59
roadmap_prompt(subj, syllabus_text, difficulty_level) ==
    [kind |-> "roadmap", subject |-> subj, difficulty |-> difficulty_level,
     context |-> <<>>, id |-> <<>>, text |-> syllabus_text, focus |-> "none",
     highlighted |-> <<>>]

\* lines 162-224
build_prompt_with_hierarchy(subj, difficulty_level, topic_data, parent_topics_content, depth) ==
    [kind |-> "lesson", subject |-> subj, difficulty |-> difficulty_level,
     context |-> parent_topics_content, id |-> topic_data.id,
     text |-> topic_data.description, focus |-> FocusOf(depth),
     highlighted |-> <<>>]

\* lines 612-669; the subject is read from the session state
create_lecture_notes_prompt(lesson_plan_entry, current_id, difficulty_level, highlighted_topics, parent_topics_content) ==
    [kind |-> "notes", subject |-> subject, difficulty |-> difficulty_level,
     context |-> parent_topics_content, id |-> current_id,
     text |-> PyStr(lesson_plan_entry), focus |-> "none",
     highlighted |-> highlighted_topics]

(***************************************************************************)
(* The cached generation functions.  `outcome` is what                     *)
(* model.generate_content does when it is called: it raises ("raise"), it  *)
(* returns a response whose .text raises ("notext"), or it returns a       *)
(* response with text ("text").  Each function returns its return value,   *)
(* the cache after the call and whether the service was called.            *)
(***************************************************************************)
Raises == [kind |-> "raise", text |-> <<>>]
NoText == [kind |-> "notext", text |-> <<>>]
Answers(t) == [kind |-> "text", text |-> t]

\* a plausible slip: the sampling temperature becomes part of the key
CacheKeyWithTemperature(prompt, temperature) == <<prompt, temperature>>

\* the key of generation_cache (lines 61, 72, 233, 248, 674, 686)
CacheKey(prompt, temperature) == prompt

InCache(cache, key) == key \in DOMAIN cache

\* a plausible slip: the handler stores the empty result
ExceptBranchStores(cache, key) ==
    [ret |-> <<>>, cache |-> (key :> <<>>) @@ cache, called |-> TRUE]

\* the except branch: the error is shown and "" returned (lines 74-77,
\* 250-253, 688-691)
ExceptBranch(cache, key) == [ret |-> <<>>, cache |-> cache, called |-> TRUE]

\* str(e) of the exception a failed request ends with: the service's own
\* text, which the functions do not choose
ExceptionText(outcome) == <<outcome.kind>>

\* what st.error is given: the words of the f-string's fixed text and the
\* values it interpolates
NoMessage == [words |-> <<>>, values |-> <<>>]

\* line 251: f"Error generating lesson plan chunk: {e}"
LessonPlanChunkError(outcome) ==
    [words |-> <<"Error", "generating", "lesson", "plan", "chunk">>,
     values |-> <<ExceptionText(outcome)>>]

\* line 689: f"Error generating text: {e}"
GenerateTextError(outcome) ==
    [words |-> <<"Error", "generating", "text">>,
     values |-> <<ExceptionText(outcome)>>]

\* a plausible slip: the list conversion is left out
MarkdownOfPlain(text) == Strip(text)

\* lines 245-246: response.text.strip().replace("*   ", "- ")
MarkdownOf(text) == Replace(Strip(text), <<"*", " ", " ", " ">>, <<"-", " ">>)

\* lines 60-77
generate_roadmap(cache, subj, syllabus_text, difficulty_level, temperature, outcome) ==
    LET key == CacheKey(roadmap_prompt(subj, syllabus_text, difficulty_level), temperature)
    IN  IF InCache(cache, key)
        THEN [ret |-> cache[key], cache |-> cache, called |-> FALSE]
        ELSE IF outcome.kind # "text" THEN ExceptBranch(cache, key)
        ELSE [ret |-> Strip(outcome.text),
              cache |-> (key :> Strip(outcome.text)) @@ cache,
              called |-> TRUE]

\* lines 226-253
generate_lesson_plan_chunk(cache, subj, difficulty_level, topic_data, parent_topics_content, depth, temperature, outcome) ==
    LET key == CacheKey(build_prompt_with_hierarchy(subj, difficulty_level, topic_data,
                                                    parent_topics_content, depth),
                        temperature)
    IN  IF InCache(cache, key)
        THEN [ret |-> cache[key], cache |-> cache, called |-> FALSE]
        ELSE IF outcome.kind # "text" THEN ExceptBranch(cache, key)
        ELSE [ret |-> MarkdownOf(outcome.text),
              cache |-> (key :> MarkdownOf(outcome.text)) @@ cache,
              called |-> TRUE]

\* lines 671-691
generate_text_from_prompt(cache, prompt, temperature, outcome) ==
    LET key == CacheKey(prompt, temperature)
    IN  IF InCache(cache, key)
        THEN [ret |-> cache[key], cache |-> cache, called |-> FALSE]
        ELSE IF outcome.kind # "text" THEN ExceptBranch(cache, key)
        ELSE [ret |-> Strip(outcome.text),
              cache |-> (key :> Strip(outcome.text)) @@ cache,
              called |-> TRUE]

(***************************************************************************)
(* The generation service, as the model's environment: when it answers, it *)
(* answers a prompt with a text that quotes the prompt's variable part,    *)
(* padded with white space; answers to overview-level lesson prompts are   *)
(* written as a "*   " list item.                                          *)
(***************************************************************************)
ServiceText(prompt) ==
    IF prompt.kind = "lesson" /\ prompt.focus = "overview"
    THEN <<" ", "*", " ", " ", " ">> \o prompt.text \o <<" ">>
    ELSE <<" ">> \o prompt.text \o <<" ">>

ServiceOutcomes(prompt) == {Raises, NoText, Answers(ServiceText(prompt))}

(***************************************************************************)
(* SpecCache: up to MaxCalls calls of the three cached functions, in any   *)
(* order, on one process-wide generation_cache.                            *)
(***************************************************************************)
\* sampling temperatures, in tenths (defaults 0.7 and 0.8)
Temperatures == {7, 8}
Difficulty == "Btech"

\* the calls made: function name and arguments
CacheCalls ==
    { [fn |-> "generate_roadmap", text |-> t] : t \in {<<"x">>} }
      \cup { [fn |-> "generate_lesson_plan_chunk", text |-> t] : t \in {<<"a">>, <<"b">>} }
      \cup { [fn |-> "generate_text_from_prompt", text |-> t] : t \in {<<"m">>} }

PromptOfCall(c) ==
    IF c.fn = "generate_roadmap" THEN roadmap_prompt(<<"S">>, c.text, Difficulty)
    ELSE IF c.fn = "generate_lesson_plan_chunk"
    THEN build_prompt_with_hierarchy(<<"S">>, Difficulty,
                                     NewNode(<<1>>, c.text, "subtopics"), <<>>, 1)
    ELSE create_lecture_notes_prompt(SomeEntry(c.text), <<1>>, Difficulty, <<>>, <<>>)

ResultOfCall(c, temperature, outcome) ==
    IF c.fn = "generate_roadmap"
    THEN generate_roadmap(generation_cache, <<"S">>, c.text, Difficulty, temperature, outcome)
    ELSE IF c.fn = "generate_lesson_plan_chunk"
    THEN generate_lesson_plan_chunk(generation_cache, <<"S">>, Difficulty,
                                    NewNode(<<1>>, c.text, "subtopics"), <<>>, 1,
                                    temperature, outcome)
    ELSE generate_text_from_prompt(generation_cache, PromptOfCall(c), temperature, outcome)

NoParse ==
    /\ lines = <<>>
    /\ line_no = 1
    /\ nodes = <<>>
    /\ topics = <<>>
    /\ current_topic = None
    /\ current_subtopic = None
    /\ current_subsubtopic = None
    /\ current_subsubsubtopic = None

InitCache ==
    /\ NoParse
    /\ generation_cache = <<>>
    /\ subject = <<"S">>
    /\ contexts = <<>>
    /\ pc = "cache"
    /\ work = <<>>
    /\ lesson_plan = <<>>
    /\ processed_ids = {}
    /\ total_items = 0
    /\ item_count = 0
    /\ progress = <<>>
    /\ document_text = <<>>
    /\ log = <<>>
    /\ llm_calls = <<>>
    /\ last = <<>>
    /\ NoOutput

\* one call of function fn; the outcome of the service matters only when the
\* service is called
Call(fn) ==
    /\ pc = "cache"
    /\ Len(log) < MaxCalls
    /\ \E c \in CacheCalls, temperature \in Temperatures :
         \E outcome \in ServiceOutcomes(PromptOfCall(c)) :
           LET res == ResultOfCall(c, temperature, outcome)
               entry == [fn |-> c.fn, prompt |-> PromptOfCall(c),
                         temperature |-> temperature,
                         kind |-> IF res.called THEN outcome.kind ELSE "hit",
                         text |-> IF res.called THEN outcome.text ELSE <<>>,
                         ret |-> res.ret, called |-> res.called]
           IN  /\ c.fn = fn
               /\ res.called \/ outcome = Raises
               /\ generation_cache' = res.cache
               /\ log' = Append(log, entry)
               /\ llm_calls' = IF res.called THEN Append(llm_calls, entry.prompt)
                               ELSE llm_calls
               /\ last' = <<[call |-> entry, before |-> generation_cache,
                             after |-> res.cache]>>
    /\ UNCHANGED <<outVars, parseVars, subject, contexts, pc, work, lesson_plan, processed_ids,
                   total_items, item_count, progress, document_text>>

CallGenerateRoadmap == Call("generate_roadmap")
CallGenerateLessonPlanChunk == Call("generate_lesson_plan_chunk")
CallGenerateTextFromPrompt == Call("generate_text_from_prompt")

NextCache ==
    \/ CallGenerateRoadmap
    \/ CallGenerateLessonPlanChunk
    \/ CallGenerateTextFromPrompt

SpecCache == InitCache /\ [][NextCache]_vars

\* a call that left the caller with the service's text: a fresh answer or a hit
Served(e) == e.kind \in {"text", "hit"}
Failed(e) == e.kind \in {"raise", "notext"}

\* C2: once a call with prompt P has succeeded, every later call with the same
\* prompt, whatever its temperature, returns the stored text without calling
\* the service; a call whose prompt has not succeeded before (a different
\* prompt, however close) calls the service.  So the service is called once
\* for two calls with one prompt and twice for two different prompts.
C2_PromptServedOnce ==
    pc = "cache" =>
        /\ \A j \in 1..Len(log) :
              log[j].called <=>
                  ~\E i \in 1..(j - 1) : log[i].prompt = log[j].prompt /\ Served(log[i])
        /\ \A i, j \in 1..Len(log) :
              (i < j /\ log[i].prompt = log[j].prompt /\ Served(log[i]))
                  => log[j].ret = log[i].ret
        /\ Len(llm_calls) = Cardinality({j \in 1..Len(log) : log[j].called})

\* the same prompt was answered and then asked again at another temperature,
\* and a different prompt was asked too
C2_Witness ==
    /\ pc = "cache"
    /\ \E i, j, k \in 1..Len(log) :
          /\ i < j
          /\ log[i].prompt = log[j].prompt
          /\ log[i].temperature # log[j].temperature
          /\ log[i].kind = "text"
          /\ log[j].kind = "hit"
          /\ log[k].prompt # log[i].prompt
          /\ log[k].fn = log[i].fn
          /\ log[k].called

\* C3: a failed call (the service raises, or reading the response text
\* raises) leaves generation_cache as it was and returns the empty string,
\* and the next call with the same prompt calls the service again.
C3_FailureNotCached ==
    pc = "cache" =>
        /\ \A n \in 1..Len(last) :
              Failed(last[n].call) =>
                  /\ last[n].call.ret = <<>>
                  /\ last[n].after = last[n].before
        /\ \A i, j \in 1..Len(log) :
              ( /\ i < j
                /\ log[i].prompt = log[j].prompt
                /\ Failed(log[i])
                /\ \A k \in (i + 1)..(j - 1) : log[k].prompt # log[i].prompt )
                  => log[j].called

\* a call failed while reading the response text, another raised, and the
\* first prompt was then asked again and answered
C3_Witness ==
    /\ pc = "cache"
    /\ \E i, j, k \in 1..Len(log) :
          /\ i < j
          /\ log[i].prompt = log[j].prompt
          /\ log[i].kind = "notext"
          /\ log[j].kind = "text"
          /\ log[k].kind = "raise"

(***************************************************************************)
(* Stage 1: generate_lesson_plan_recursive / generate_lesson_plan_chunk_json*)
(* and stage 2: create_detailed_notes_recursive.  The recursion is held as *)
(* the sequence `work` of the calls still to be made, the next one first:  *)
(* a call is replaced by the calls for its children, in their order, so    *)
(* calls are made in the order the recursion makes them.  Each call is one *)
(* step, because the request to the service inside it may fail or answer.  *)
(***************************************************************************)
\* options of the depth slider (line 818)
Depths == {1, 2, 3}

PlanTemperature == 7
NotesTemperature == 8
HighlightedTopics == <<>>

ChildKeys == {"subtopics", "subsubtopics", "subsubsubtopics"}

\* lines 302, 311, 320: the depth handed to the children found under `key`
DepthStep(key) ==
    IF key = "subtopics" THEN 1 ELSE IF key = "subsubtopics" THEN 2 ELSE 3

\* lines 281-285: current_level_context, a new dict named r
PlanContexts(heap, r, parent, topic_data) ==
    (r :> DictUpdate(<<<<topic_data.id, topic_data.description>>>>,
                     ContextOf(heap, parent))) @@ heap

\* lines 753-756: current_level_context of generate_notes_recursive
NotesContexts(heap, r, parent, data) ==
    (r :> DictSet(DictUpdate(<<>>, ContextOf(heap, parent)), data.id, data.title)) @@ heap

\* the outcomes of one request made during a traversal
TraversalOutcomes(prompt) == {Raises, Answers(ServiceText(prompt))}

\* lines 291-299, 307-308, 316-317: topic_json before its children are appended
TopicJson(topic_data, content_string) ==
    [id |-> topic_data.id, title |-> topic_data.description, content |-> content_string,
     key |-> IF topic_data.key \in ChildKeys /\ topic_data.kids # <<>>
             THEN topic_data.key ELSE "none",
     kids |-> <<>>]

\* lines 270, 304, 313, 322: the append of a finished topic_json to its parent
PlanWith(plan, r, parent, topic_json) ==
    LET heap == (r :> topic_json) @@ plan.nodes
    IN  IF parent = None
        THEN [plan EXCEPT !.nodes = heap, !.topics = Append(plan.topics, r)]
        ELSE [plan EXCEPT !.nodes = [heap EXCEPT ![parent].kids = Append(@, r)]]

\* a plausible slip: the children are taken last first
PlanChildCallsReversed(topic_data, r, depth) ==
    IF topic_data.key \in ChildKeys
    THEN [k \in 1..Len(topic_data.kids) |->
            [node |-> topic_data.kids[Len(topic_data.kids) + 1 - k], ctx |-> r,
             depth |-> depth + DepthStep(topic_data.key), parent |-> r]]
    ELSE <<>>

\* lines 298-322: the recursive calls for the children of node r
PlanChildCalls(topic_data, r, depth) ==
    IF topic_data.key \in ChildKeys
    THEN [k \in 1..Len(topic_data.kids) |->
            [node |-> topic_data.kids[k], ctx |-> r,
             depth |-> depth + DepthStep(topic_data.key), parent |-> r]]
    ELSE <<>>

\* lines 266-269: the calls for the topics of the roadmap
PlanRootCalls(tops, depth) ==
    [k \in 1..Len(tops) |-> [node |-> tops[k], ctx |-> None, depth |-> depth,
                             parent |-> None]]

\* texts taken through the two stages
RoadmapPaths ==
    { <<"1">>, Dot(<<"1">>, <<"1">>), Dot(<<"1">>, <<"2">>),
      Dot(Dot(<<"1">>, <<"1">>), <<"1">>),
      Dot(Dot(Dot(<<"1">>, <<"1">>), <<"1">>), <<"1">>) }

\* generate_lesson_plan_recursive has parsed the roadmap (lines 259-264)
\* the select_slider of line 816 starts at its first option
DefaultDepth == 1

\* the button "Generate Lesson Plan" is pressed on a stored roadmap with the
\* slider at one of `depths`: generate_lesson_plan_recursive up to its first
\* call of generate_lesson_plan_chunk_json (lines 259-266)
StartPlan(depths) ==
    \E text \in TextsOf(MaxRoadmapLines, RoadmapPaths, {}) :
        LET q == parse_roadmap(text)
        IN  \E depth \in depths :
                /\ lines = text
                /\ line_no = Len(text) + 1
                /\ nodes = q.nodes
                /\ topics = q.topics
                /\ current_topic = q.current_topic
                /\ current_subtopic = q.current_subtopic
                /\ current_subsubtopic = q.current_subsubtopic
                /\ current_subsubsubtopic = q.current_subsubsubtopic
                /\ generation_cache = <<>>
                /\ subject = <<"S">>
                /\ contexts = <<>>
                /\ work = PlanRootCalls(q.topics, depth)
                /\ pc = IF q.topics = <<>> THEN "planned" ELSE "plan"
                /\ lesson_plan = [subject |-> <<"S">>, difficulty |-> Difficulty,
                                  topics |-> <<>>, nodes |-> <<>>]
                /\ processed_ids = {}
                /\ total_items = 0
                /\ item_count = 0
                /\ progress = <<>>
                /\ document_text = <<>>
                /\ log = <<>>
                /\ llm_calls = <<>>
                /\ last = <<>>
                /\ NoOutput

\* stage 1 alone, for every position of the depth slider
InitPlan == StartPlan(Depths)

\* stages 1 and 2, with the slider where it starts
Init == StartPlan({DefaultDepth})

\* one call of generate_lesson_plan_chunk_json up to its recursive calls
\* (lines 274-299), with the append of its result (lines 270, 304, 313, 322)
GenerateLessonPlanChunkJson ==
    /\ pc = "plan"
    /\ work # <<>>
    /\ LET c == Head(work)
           r == c.node
           topic_data == nodes[r]
           heap == PlanContexts(contexts, r, c.ctx, topic_data)
           prompt == build_prompt_with_hierarchy(subject, Difficulty, topic_data,
                                                 heap[r], c.depth)
       IN  \E outcome \in TraversalOutcomes(prompt) :
             LET res == generate_lesson_plan_chunk(generation_cache, subject, Difficulty,
                                                   topic_data, heap[r], c.depth,
                                                   PlanTemperature, outcome)
             IN  /\ res.called \/ outcome = Raises
                 /\ contexts' = heap
                 /\ generation_cache' = res.cache
                 /\ lesson_plan' = PlanWith(lesson_plan, r, c.parent,
                                            TopicJson(topic_data, res.ret))
                 /\ work' = PlanChildCalls(topic_data, r, c.depth) \o Tail(work)
                 /\ pc' = IF work' = <<>> THEN "planned" ELSE "plan"
                 /\ log' = Append(log,
                        [stage |-> "plan", node |-> r, id |-> topic_data.id,
                         depth |-> c.depth,
                         inherited |-> ContextOf(contexts, c.ctx),
                         outgoing |-> heap[r], prompt |-> prompt,
                         kind |-> IF res.called THEN outcome.kind ELSE "hit",
                         text |-> IF res.called THEN outcome.text ELSE <<>>,
                         error |-> IF res.called /\ outcome.kind # "text"
                                   THEN LessonPlanChunkError(outcome)
                                   ELSE NoMessage,
                         ret |-> res.ret])
                 /\ llm_calls' = IF res.called THEN Append(llm_calls, prompt)
                                 ELSE llm_calls
    /\ UNCHANGED <<outVars, parseVars, subject, processed_ids, total_items, item_count,
                   progress, document_text, last>>

NextPlan == GenerateLessonPlanChunkJson

SpecPlan == InitPlan /\ [][NextPlan]_vars

\* the nodes of the lesson-plan tree below r in the order a depth-first search
\* of the JSON meets them
RECURSIVE PlanPreOrder(_, _)
RECURSIVE PlanPreOrderAll(_, _)
PlanPreOrder(heap, r) == <<r>> \o PlanPreOrderAll(heap, heap[r].kids)
PlanPreOrderAll(heap, rs) ==
    IF rs = <<>> THEN <<>>
    ELSE PlanPreOrder(heap, Head(rs)) \o PlanPreOrderAll(heap, Tail(rs))

\* `if result:` of lines 523, 530
Truthy(entry) == ~entry.none /\ entry.text # <<>>

\* lines 519-532, find_entry_recursive on the list of the dicts rs and on the
\* dict r: a dict with the id returns its content and is not searched any
\* deeper; a list and the values of any other dict are searched in order, and
\* the first truthy result is returned
RECURSIVE FindEntryInList(_, _, _)
RECURSIVE FindEntryInDict(_, _, _)
FindEntryInList(heap, rs, target_id) ==
    LET Pass(result) ==
            IF Truthy(result) THEN result
            ELSE FindEntryInList(heap, Tail(rs), target_id)
    IN  IF rs = <<>> THEN NoneEntry
        ELSE Pass(FindEntryInDict(heap, Head(rs), target_id))
FindEntryInDict(heap, r, target_id) ==
    LET Pass(result) == IF Truthy(result) THEN result ELSE NoneEntry
    IN  IF heap[r].id = target_id THEN SomeEntry(heap[r].content)
        ELSE Pass(FindEntryInList(heap, heap[r].kids, target_id))

\* lines 516-535: the lesson plan is a dict without "id", so the result is
\* the truthy result of the search of its "topics", or None
extract_lesson_plan_entry(plan, current_id) ==
    LET Pass(result) == IF Truthy(result) THEN result ELSE NoneEntry
    IN  Pass(FindEntryInList(plan.nodes, plan.topics, current_id))

\* a plausible slip: only the top-level topics are counted
CountTopLevel(plan) == Len(plan.topics)

\* lines 720-733: count_items_recursive(lesson_plan_json["topics"])
count_items_recursive(plan) == Len(PlanPreOrderAll(plan.nodes, plan.topics))

\* a progress value as the fraction <<numerator, denominator>>
Frac(n, d) == <<n, d>>

\* line 765
ProgressValue(count, total) == IF total > 0 THEN Frac(count, total) ELSE Frac(1, 1)

\* a plausible slip: the visited-id guard is left out
NeverProcessed(processed, topic_id) == FALSE

\* line 747
AlreadyProcessed(processed, topic_id) == topic_id \in processed

\* lines 740-742, 768-770: the recursive calls for a list of nodes
NotesCalls(rs, ctx) == [k \in 1..Len(rs) |-> [node |-> rs[k], ctx |-> ctx]]

\* the button "Generate Detailed Notes": create_detailed_notes_recursive up to
\* its first recursive call (lines 717-735, 772).  The button starts a new
\* run of the script, whose line 30 makes generation_cache a new dict
StartNotes ==
    /\ pc = "planned"
    /\ generation_cache' = <<>>
    /\ total_items' = count_items_recursive(lesson_plan)
    /\ item_count' = 0
    /\ progress' = <<Frac(0, 1)>>
    /\ processed_ids' = {}
    /\ document_text' = <<>>
    /\ contexts' = <<>>
    /\ work' = NotesCalls(lesson_plan.topics, None)
    /\ pc' = IF lesson_plan.topics = <<>> THEN "notes_done" ELSE "notes"
    /\ UNCHANGED <<outVars, parseVars, subject, lesson_plan, log, llm_calls, last>>

\* lines 744-748: a node whose id was processed already is passed over, with
\* everything below it
SkipProcessed ==
    /\ pc = "notes"
    /\ work # <<>>
    /\ AlreadyProcessed(processed_ids, lesson_plan.nodes[Head(work).node].id)
    /\ work' = Tail(work)
    /\ pc' = IF work' = <<>> THEN "notes_done" ELSE "notes"
    /\ UNCHANGED <<outVars, parseVars, generation_cache, subject, contexts, lesson_plan,
                   processed_ids, total_items, item_count, progress, document_text,
                   log, llm_calls, last>>

\* lines 750-770 with generate_lecture_notes_chunk (lines 697-711): one node
\* of the lecture notes
GenerateNotes ==
    /\ pc = "notes"
    /\ work # <<>>
    /\ LET c == Head(work)
           r == c.node
           data == lesson_plan.nodes[r]
           heap == NotesContexts(contexts, r, c.ctx, data)
           lesson_plan_entry == extract_lesson_plan_entry(lesson_plan, data.id)
           prompt == create_lecture_notes_prompt(lesson_plan_entry, data.id, Difficulty,
                                                 HighlightedTopics,
                                                 DictUpdate(<<>>, heap[r]))
       IN  /\ ~AlreadyProcessed(processed_ids, data.id)
           /\ \E outcome \in TraversalOutcomes(prompt) :
                LET res == generate_text_from_prompt(generation_cache, prompt,
                                                     NotesTemperature, outcome)
                IN  /\ res.called \/ outcome = Raises
                    /\ processed_ids' = processed_ids \cup {data.id}
                    /\ contexts' = heap
                    /\ generation_cache' = res.cache
                    /\ document_text' = document_text \o res.ret \o <<"\n", "\n">>
                    /\ item_count' = item_count + 1
                    /\ progress' = Append(progress,
                                          ProgressValue(item_count + 1, total_items))
                    /\ work' = (IF data.key \in ChildKeys THEN NotesCalls(data.kids, r)
                                ELSE <<>>) \o Tail(work)
                    /\ pc' = IF work' = <<>> THEN "notes_done" ELSE "notes"
                    /\ log' = Append(log,
                           [stage |-> "notes", node |-> r, id |-> data.id, depth |-> 0,
                            inherited |-> ContextOf(contexts, c.ctx),
                            outgoing |-> heap[r], prompt |-> prompt,
                            kind |-> IF res.called THEN outcome.kind ELSE "hit",
                            text |-> IF res.called THEN outcome.text ELSE <<>>,
                            error |-> IF res.called /\ outcome.kind # "text"
                                      THEN GenerateTextError(outcome)
                                      ELSE NoMessage,
                            ret |-> res.ret])
                    /\ llm_calls' = IF res.called THEN Append(llm_calls, prompt)
                                    ELSE llm_calls
    /\ UNCHANGED <<outVars, parseVars, subject, lesson_plan, total_items, last>>

Next ==
    \/ GenerateLessonPlanChunkJson
    \/ StartNotes
    \/ SkipProcessed
    \/ GenerateNotes

Spec == Init /\ [][Next]_vars

(***************************************************************************)
(* Claims about the two traversals, checked under Spec.                    *)
(***************************************************************************)
PlanLog == SelectSeq(log, LAMBDA e : e.stage = "plan")
NotesLog == SelectSeq(log, LAMBDA e : e.stage = "notes")

\* the parent of node r in the parsed forest (None for a topic)
ParentOf(r) ==
    IF \E q \in DOMAIN nodes : \E k \in 1..Len(nodes[q].kids) : nodes[q].kids[k] = r
    THEN CHOOSE q \in DOMAIN nodes : \E k \in 1..Len(nodes[q].kids) : nodes[q].kids[k] = r
    ELSE None

RECURSIVE AncestorsOf(_)
AncestorsOf(r) ==
    IF ParentOf(r) = None THEN {} ELSE {ParentOf(r)} \cup AncestorsOf(ParentOf(r))

\* the nodes of the subtrees of the siblings of r
SiblingSide(r) ==
    LET family == IF ParentOf(r) = None THEN topics ELSE nodes[ParentOf(r)].kids
    IN  UNION {Below(nodes, family[k]) : k \in {i \in 1..Len(family) : family[i] # r}}

\* the parsed forest and the lesson-plan tree, as nested values
RECURSIVE RoadmapShape(_)
RoadmapShape(r) ==
    [id |-> nodes[r].id, title |-> nodes[r].description,
     kids |-> [k \in 1..Len(nodes[r].kids) |-> RoadmapShape(nodes[r].kids[k])]]

RECURSIVE PlanShape(_)
PlanShape(r) ==
    [id |-> lesson_plan.nodes[r].id, title |-> lesson_plan.nodes[r].title,
     kids |-> [k \in 1..Len(lesson_plan.nodes[r].kids) |->
                 PlanShape(lesson_plan.nodes[r].kids[k])]]

\* the stage-1 visit of node r
PlanVisits(r) == {i \in 1..Len(PlanLog) : PlanLog[i].node = r}

\* the text the service returned for the prompt of visit e, stripped
StrippedAnswer(e) == Strip(ServiceText(e.prompt))
\* the same after the list conversion of generate_lesson_plan_chunk
ConvertedAnswer(e) == Replace(StrippedAnswer(e), <<"*", " ", " ", " ">>, <<"-", " ">>)

\* stage 1 has finished: the tree has the nodes of the forest, each once and
\* in the same order, and the content of a node is "" where its call failed
\* and otherwise the answer of its visit, converted or only stripped
PlanComplete(converted) ==
    /\ [k \in 1..Len(lesson_plan.topics) |-> PlanShape(lesson_plan.topics[k])]
         = [k \in 1..Len(topics) |-> RoadmapShape(topics[k])]
    /\ DOMAIN lesson_plan.nodes = InForest(nodes, topics)
    /\ \A r \in InForest(nodes, topics) :
          /\ Cardinality(PlanVisits(r)) = 1
          /\ \A i \in PlanVisits(r) :
                lesson_plan.nodes[r].content
                    = IF Failed(PlanLog[i]) THEN <<>>
                      ELSE IF converted THEN ConvertedAnswer(PlanLog[i])
                      ELSE StrippedAnswer(PlanLog[i])

\* C1 as stated: whichever calls fail, when stage 1 has finished the tree
\* holds every node of the forest once, in the same order; a node whose call
\* failed has content "" and every other node has the stripped text returned
\* for its prompt.
C1_StrippedContent ==
    pc = "planned" => PlanComplete(FALSE)

\* C1, amended: as above, but the content of a node whose call succeeded is
\* the stripped text with every "*   " replaced by "- ".
C1_ConvertedContent ==
    pc = "planned" => PlanComplete(TRUE)

\* stage 1 has finished; the call for a node with children failed, the calls
\* for one of its children and for a later node succeeded, and the list
\* conversion changed the text of some node
C1_Witness ==
    /\ pc = "planned"
    /\ \E i, j, k \in 1..Len(PlanLog) :
          /\ Failed(PlanLog[i])
          /\ ParentOf(PlanLog[j].node) = PlanLog[i].node
          /\ PlanLog[j].kind = "text"
          /\ PlanLog[k].kind = "text"
          /\ PlanLog[k].ret # StrippedAnswer(PlanLog[k])

\* the content generated for node m, when there is any
ContentsOf(m) ==
    IF m \in DOMAIN lesson_plan.nodes /\ lesson_plan.nodes[m].content # <<>>
    THEN {lesson_plan.nodes[m].content} ELSE {}

\* the visit of the parent of the node of visit e, in the same stage
ParentVisits(e) ==
    {i \in 1..Len(log) : log[i].stage = e.stage /\ log[i].node = ParentOf(e.node)}

\* the context of visit e holds the id of every strict ancestor of its node,
\* and the dict the node inherited is the dict its parent built
ContextFromParent(e) ==
    /\ \A a \in AncestorsOf(e.node) : nodes[a].id \in DictKeys(e.prompt.context)
    /\ IF ParentOf(e.node) = None THEN e.inherited = <<>>
       ELSE \A i \in ParentVisits(e) : e.inherited = log[i].outgoing

\* C4: in both traversals the parent-context section of the prompt of a node
\* holds the id of every strict ancestor and never the id, the title or the
\* generated content of a sibling or of a node below a sibling; and the
\* context a child sees is the one its parent built, whatever children were
\* processed before it.
C4_ContextIsolation ==
    \A n \in 1..Len(log) :
        /\ ContextFromParent(log[n])
        /\ \A m \in SiblingSide(log[n].node) :
              /\ nodes[m].id \notin DictKeys(log[n].prompt.context)
              /\ nodes[m].description \notin DictValues(log[n].prompt.context)
              /\ ContentsOf(m) \cap DictValues(log[n].prompt.context) = {}

\* What does hold of the contexts: nothing in the context of a node comes
\* from the sibling side; an id of the sibling side is a key only where a
\* node on the node's own path, the node included, carries the same id.
ContextFromOwnPath ==
    \A n \in 1..Len(log) :
        /\ ContextFromParent(log[n])
        /\ \A m \in SiblingSide(log[n].node) :
              /\ nodes[m].description \notin DictValues(log[n].prompt.context)
              /\ ContentsOf(m) \cap DictValues(log[n].prompt.context) = {}
              /\ nodes[m].id \in DictKeys(log[n].prompt.context)
                    => \E q \in AncestorsOf(log[n].node) \cup {log[n].node} :
                          nodes[q].id = nodes[m].id

\* a <= b for progress values
FracLeq(a, b) == a[1] * b[2] <= b[1] * a[2]

\* C8: every progress value reported lies in [0, 1] and the values never
\* decrease; the number of processed nodes never exceeds the total.
C8_ProgressMonotone ==
    /\ \A i \in 1..Len(progress) :
          /\ progress[i][2] > 0
          /\ FracLeq(Frac(0, 1), progress[i])
          /\ FracLeq(progress[i], Frac(1, 1))
    /\ \A i, j \in 1..Len(progress) : i < j => FracLeq(progress[i], progress[j])
    /\ pc \in {"notes", "notes_done"} => item_count <= total_items

\* the notes of a tree of three or more nodes are finished, and a request
\* failed on the way
C8_Witness ==
    /\ pc = "notes_done"
    /\ Len(progress) >= 4
    /\ \E n \in 1..Len(NotesLog) : Failed(NotesLog[n])

\* C9: when the traversal of create_detailed_notes_recursive has finished, the
\* visited count equals the total and the last progress value is 1.0.
C9_FinalProgressIsOne ==
    pc = "notes_done" =>
        /\ item_count = total_items
        /\ total_items > 0 => progress[Len(progress)] = Frac(total_items, total_items)

\* C10: at most one lecture-notes generation is issued per distinct id.
C10_OnceEachId ==
    \A i, j \in 1..Len(NotesLog) : i # j => NotesLog[i].id # NotesLog[j].id

\* the notes are finished for a tree in which an id occurs at two nodes
C10_Witness ==
    /\ pc = "notes_done"
    /\ \E r1, r2 \in DOMAIN lesson_plan.nodes :
          r1 # r2 /\ lesson_plan.nodes[r1].id = lesson_plan.nodes[r2].id
    /\ Len(NotesLog) >= 2

\* the ids for which a lecture-notes generation has been issued
NotesIds == {NotesLog[n].id : n \in 1..Len(NotesLog)}

\* C11: when create_detailed_notes_recursive has finished, a lecture-notes
\* generation has been issued for the id of every node of the lesson-plan
\* tree, the nodes below a skipped node included.
C11_EveryIdGenerated ==
    pc = "notes_done" =>
        \A r \in DOMAIN lesson_plan.nodes : lesson_plan.nodes[r].id \in NotesIds

(***************************************************************************)
(* The snapshot lesson_plan.json (src/app2.py:326-334).                    *)
(*                                                                         *)
(* A Python value is [t, s, items]: a str (s: its characters), a list      *)
(* (items: its values) or a dict (items: its <<key, value>> pairs in       *)
(* insertion order).  A character outside ASCII is written as the name of  *)
(* its code point: "U+00E9", and "U+1F600" beyond the basic plane.         *)
(***************************************************************************)
PyText(s) == [t |-> "str", s |-> s, items |-> <<>>]
PyList(items) == [t |-> "list", s |-> <<>>, items |-> items]
PyDict(items) == [t |-> "dict", s |-> <<>>, items |-> items]

\* the characters of the names used in the tree
Chars(name) ==
    CASE name = "subject" -> <<"s", "u", "b", "j", "e", "c", "t">>
      [] name = "difficulty" -> <<"d", "i", "f", "f", "i", "c", "u", "l", "t", "y">>
      [] name = "topics" -> <<"t", "o", "p", "i", "c", "s">>
      [] name = "id" -> <<"i", "d">>
      [] name = "title" -> <<"t", "i", "t", "l", "e">>
      [] name = "content" -> <<"c", "o", "n", "t", "e", "n", "t">>
      [] name = "subtopics" -> <<"s", "u", "b", "t", "o", "p", "i", "c", "s">>
      [] name = "subsubtopics" ->
            <<"s", "u", "b", "s", "u", "b", "t", "o", "p", "i", "c", "s">>
      [] name = "subsubsubtopics" ->
            <<"s", "u", "b", "s", "u", "b", "s", "u", "b", "t", "o", "p", "i", "c", "s">>
      [] name = "Btech" -> <<"B", "t", "e", "c", "h">>

\* str(n) for n >= 0
DigitOf(d) == CHOOSE c \in AsciiDigits : DigitVal(c) = d
RECURSIVE DigitsOf(_)
DigitsOf(n) ==
    IF n < 10 THEN <<DigitOf(n)>> ELSE DigitsOf(n \div 10) \o <<DigitOf(n % 10)>>

\* the id string f"T{a}.{b}..." of an id
RECURSIVE DottedText(_)
DottedText(id) ==
    IF Len(id) = 1 THEN DigitsOf(id[1])
    ELSE DottedText(SubSeq(id, 1, Len(id) - 1)) \o <<".">> \o DigitsOf(id[Len(id)])
IdText(id) == <<"T">> \o DottedText(id)

\* the lesson-plan tree as the Python value handed to json.dump
RECURSIVE PyTopic(_, _)
PyTopic(plan, r) ==
    LET n == plan.nodes[r]
    IN  PyDict(<< <<Chars("id"), PyText(IdText(n.id))>>,
                  <<Chars("title"), PyText(n.title)>>,
                  <<Chars("content"), PyText(n.content)>> >>
               \o (IF n.key = "none" THEN <<>>
                   ELSE << <<Chars(n.key),
                             PyList([k \in 1..Len(n.kids) |-> PyTopic(plan, n.kids[k])])>> >>))

PyLessonPlan(plan) ==
    PyDict(<< <<Chars("subject"), PyText(plan.subject)>>,
              <<Chars("difficulty"), PyText(Chars(plan.difficulty))>>,
              <<Chars("topics"),
                PyList([k \in 1..Len(plan.topics) |-> PyTopic(plan, plan.topics[k])])>> >>)

\* json.dump, ensure_ascii=True: the \uXXXX escapes of the characters outside
\* ASCII (a surrogate pair beyond the basic plane)
\* c is outside ASCII
NonAscii(c) == Ord(c) > 127

\* '\\u{0:04x}'.format(n)
U4(n) ==
    <<"\\", "u", LowerHex[((n \div 4096) % 16) + 1], LowerHex[((n \div 256) % 16) + 1],
      LowerHex[((n \div 16) % 16) + 1], LowerHex[(n % 16) + 1]>>

\* the \u escape of the code point n, a surrogate pair above U+FFFF
UEscape(n) ==
    IF n < 65536 THEN U4(n)
    ELSE U4(55296 + ((n - 65536) \div 1024)) \o U4(56320 + ((n - 65536) % 1024))

\* a plausible slip: the characters are written as they are
EscapeCharRaw(c) == <<c>>

\* json.encoder.py_encode_basestring_ascii, one character: the quote, the
\* backslash and the characters outside ' '..'~' are escaped
EscapeChar(c) ==
    IF c = "\"" THEN <<"\\", "\"">>
    ELSE IF c = "\\" THEN <<"\\", "\\">>
    ELSE IF c = "\n" THEN <<"\\", "n">>
    ELSE IF c = "\r" THEN <<"\\", "r">>
    ELSE IF c = "\t" THEN <<"\\", "t">>
    ELSE IF c = "\f" THEN <<"\\", "f">>
    ELSE IF Len(c) = 1 THEN <<c>>
    ELSE IF Code(c) = 8 THEN <<"\\", "b">>
    ELSE IF Code(c) \in 32..126 THEN <<c>>
    ELSE UEscape(Code(c))

RECURSIVE EscapeAll(_)
EscapeAll(s) == IF s = <<>> THEN <<>> ELSE EscapeChar(Head(s)) \o EscapeAll(Tail(s))

JsonString(s) == <<"\"">> \o EscapeAll(s) \o <<"\"">>

\* indent=4: a newline and the indentation of `level`
JsonIndent(level) == <<"\n">> \o [i \in 1..(4 * level) |-> " "]

\* json.dump(value, f, indent=4): the text written
RECURSIVE JsonDump(_, _)
RECURSIVE JsonItems(_, _, _)
JsonItems(v, k, level) ==
    LET item == IF v.t = "list" THEN JsonDump(v.items[k], level)
                ELSE JsonString(v.items[k][1]) \o <<":", " ">>
                     \o JsonDump(v.items[k][2], level)
    IN  JsonIndent(level) \o item
        \o (IF k = Len(v.items) THEN <<>> ELSE <<",">> \o JsonItems(v, k + 1, level))

JsonDump(v, level) ==
    IF v.t = "str" THEN JsonString(v.s)
    ELSE LET open == IF v.t = "list" THEN "[" ELSE "{"
             close == IF v.t = "list" THEN "]" ELSE "}"
         IN  IF v.items = <<>> THEN <<open, close>>
             ELSE <<open>> \o JsonItems(v, 1, level + 1) \o JsonIndent(level) \o <<close>>

\* json.load: the reader of the text.  Every function returns the value read
\* and the position after it; ok is FALSE where the text is not JSON.
JsonFail == [ok |-> FALSE, v |-> PyText(<<>>), at |-> 0]
JsonRead(v, at) == [ok |-> TRUE, v |-> v, at |-> at]

JsonWhitespace == {" ", "\n", "\t", "\r"}

RECURSIVE SkipWhitespace(_, _)
SkipWhitespace(txt, i) ==
    IF i <= Len(txt) /\ txt[i] \in JsonWhitespace THEN SkipWhitespace(txt, i + 1) ELSE i

\* four hex digits stand at txt[i..i+3], and the number they write
IsHex4(txt, i) == i + 3 <= Len(txt) /\ \A k \in 0..3 : IsHex(txt[i + k])
Hex4(txt, i) ==
    4096 * HexVal(txt[i]) + 256 * HexVal(txt[i + 1]) + 16 * HexVal(txt[i + 2])
        + HexVal(txt[i + 3])

\* the character written by a backslash escape that starts at txt[i] = "\\",
\* and the number of characters of the escape.  A \u escape of a high
\* surrogate that is followed by a \u escape of a low surrogate and one more
\* character writes the character of the pair; any other surrogate stands
\* for itself.
Unescape(txt, i) ==
    LET Bad == [ok |-> FALSE, c |-> "", n |-> 0]
        One(c) == [ok |-> TRUE, c |-> c, n |-> 2]
        Pair(hi) ==
            IF hi \in 55296..56319 /\ i + 12 <= Len(txt)
               /\ txt[i + 6] = "\\" /\ txt[i + 7] = "u"
            THEN IF ~IsHex4(txt, i + 8) THEN Bad
                 ELSE IF Hex4(txt, i + 8) \in 56320..57343
                      THEN [ok |-> TRUE,
                            c |-> Chr(65536 + (hi - 55296) * 1024
                                        + (Hex4(txt, i + 8) - 56320)),
                            n |-> 12]
                      ELSE [ok |-> TRUE, c |-> Chr(hi), n |-> 6]
            ELSE [ok |-> TRUE, c |-> Chr(hi), n |-> 6]
        Escaped(e) ==
            IF e = "\"" THEN One("\"")
            ELSE IF e = "\\" THEN One("\\")
            ELSE IF e = "/" THEN One("/")
            ELSE IF e = "b" THEN One(Chr(8))
            ELSE IF e = "f" THEN One("\f")
            ELSE IF e = "n" THEN One("\n")
            ELSE IF e = "r" THEN One("\r")
            ELSE IF e = "t" THEN One("\t")
            ELSE IF e = "u" /\ IsHex4(txt, i + 2) THEN Pair(Hex4(txt, i + 2))
            ELSE Bad
    IN  IF i + 1 > Len(txt) THEN Bad ELSE Escaped(txt[i + 1])

\* a control character: the strict reader refuses it inside a string
IsControl(c) ==
    IF Len(c) = 1 THEN c \in {"\n", "\t", "\r", "\f"} ELSE Code(c) < 32

\* the characters of a string from position i, after its opening quote
RECURSIVE ReadChars(_, _, _)
ReadChars(txt, i, acc) ==
    LET After(u) ==
            IF u.ok THEN ReadChars(txt, i + u.n, Append(acc, u.c)) ELSE JsonFail
    IN  IF i > Len(txt) THEN JsonFail
        ELSE IF IsControl(txt[i]) THEN JsonFail
        ELSE IF txt[i] = "\"" THEN JsonRead(PyText(acc), i + 1)
        ELSE IF txt[i] = "\\" THEN After(Unescape(txt, i))
        ELSE ReadChars(txt, i + 1, Append(acc, txt[i]))

RECURSIVE ReadValue(_, _)
RECURSIVE ReadItems(_, _, _, _)

\* the items of a list or dict from position i, after the opening bracket or
\* a comma; acc holds the items read so far.  A key read again takes the new
\* value and keeps its place.
ReadItems(txt, i, isList, acc) ==
    LET j == SkipWhitespace(txt, i)
        key == IF isList \/ j > Len(txt) \/ txt[j] # "\"" THEN JsonFail
               ELSE ReadChars(txt, j + 1, <<>>)
        colon == IF key.ok THEN SkipWhitespace(txt, key.at) ELSE 0
        val == IF isList THEN ReadValue(txt, j)
               ELSE IF key.ok /\ colon <= Len(txt) /\ txt[colon] = ":"
                    THEN ReadValue(txt, colon + 1)
               ELSE JsonFail
        items == IF isList THEN Append(acc, val.v) ELSE DictSet(acc, key.v.s, val.v)
        k == IF val.ok THEN SkipWhitespace(txt, val.at) ELSE 0
    IN  IF ~val.ok \/ k > Len(txt) THEN JsonFail
        ELSE IF txt[k] = "," THEN ReadItems(txt, k + 1, isList, items)
        ELSE IF txt[k] = (IF isList THEN "]" ELSE "}")
             THEN JsonRead(IF isList THEN PyList(items) ELSE PyDict(items), k + 1)
        ELSE JsonFail

ReadValue(txt, i) ==
    LET j == SkipWhitespace(txt, i)
    IN  IF j > Len(txt) THEN JsonFail
        ELSE IF txt[j] = "\"" THEN ReadChars(txt, j + 1, <<>>)
        ELSE IF txt[j] \in {"[", "{"}
             THEN LET isList == txt[j] = "["
                      k == SkipWhitespace(txt, j + 1)
                  IN  IF k <= Len(txt) /\ txt[k] = (IF isList THEN "]" ELSE "}")
                      THEN JsonRead(IF isList THEN PyList(<<>>) ELSE PyDict(<<>>), k + 1)
                      ELSE ReadItems(txt, j + 1, isList, <<>>)
        ELSE JsonFail

\* json.load of a file with this text: the value, when the whole text is one
json_load(txt) ==
    LET r == ReadValue(txt, 1)
    IN  IF r.ok /\ SkipWhitespace(txt, r.at) = Len(txt) + 1 THEN r ELSE JsonFail

\* the lesson plan stage 1 builds over the parsed forest when the content
\* returned for node r is contentOf[r]: the appends of
\* GenerateLessonPlanChunkJson, in its order
RECURSIVE BuildPlan(_, _, _, _)
BuildPlan(heap, plan, calls, contentOf) ==
    IF calls = <<>> THEN plan
    ELSE LET c == Head(calls)
             topic_data == heap[c.node]
         IN  BuildPlan(heap,
                       PlanWith(plan, c.node, c.parent,
                                TopicJson(topic_data, contentOf[c.node])),
                       PlanChildCalls(topic_data, c.node, c.depth) \o Tail(calls),
                       contentOf)

MaxSaveLines == 3

SavePaths == { <<"1">>, Dot(<<"1">>, <<"1">>), Dot(Dot(<<"1">>, <<"1">>), <<"1">>) }

\* descriptions and contents with quotes, backslashes, line breaks, JSON
\* punctuation and characters outside ASCII
SaveTitles ==
    << <<"U+00E9">>, <<"a", "\"", "b">>, <<"\\", "n">>, <<"U+1F600", " ", "x">> >>
SaveContents ==
    << <<>>,
       <<"-", " ", "U+00E9", "\n", "\"", "q", "\"", "\r", "U+00FC", "z">>,
       <<"\\", "u", "0", "0", "e", "9", "\t", "U+1F600", "U+0008", "\f", "U+007F", "/">>,
       <<"{", "}", ",", ":", "[">> >>

SaveTexts ==
    { [i \in 1..MaxSaveLines |-> PathLine(c[i], SaveTitles[((i - 1) % 4) + 1])] :
        c \in [1..MaxSaveLines -> SavePaths] }

\* st.session_state.lesson_plan holds a tree of stage 1 (line 828)
InitSave ==
    \E text \in SaveTexts, shift \in 0..3 :
        LET q == parse_roadmap(text)
            contentOf == [r \in 1..Len(text) |-> SaveContents[((r + shift) % 4) + 1]]
        IN  /\ lines = text
            /\ line_no = Len(text) + 1
            /\ nodes = q.nodes
            /\ topics = q.topics
            /\ current_topic = q.current_topic
            /\ current_subtopic = q.current_subtopic
            /\ current_subsubtopic = q.current_subsubtopic
            /\ current_subsubsubtopic = q.current_subsubsubtopic
            /\ generation_cache = <<>>
            /\ subject = <<"S">>
            /\ contexts = <<>>
            /\ work = <<>>
            /\ pc = "planned"
            /\ lesson_plan =
                 BuildPlan(q.nodes,
                           [subject |-> <<"S">>, difficulty |-> Difficulty,
                            topics |-> <<>>, nodes |-> <<>>],
                           PlanRootCalls(q.topics, DefaultDepth), contentOf)
            /\ processed_ids = {}
            /\ total_items = 0
            /\ item_count = 0
            /\ progress = <<>>
            /\ document_text = <<>>
            /\ log = <<>>
            /\ llm_calls = <<>>
            /\ last = <<>>
            /\ NoOutput

\* what a call of save_lesson_plan_json can do to the file: write it all;
\* fail in open(), leaving the file as it was; or fail after open() has
\* truncated it, in a write or in the close, with the first n characters of
\* the text in the file, for any n up to the whole text
SaveOutcomes(file, text) ==
    { [kind |-> "ok", file |-> [exists |-> TRUE, text |-> text]],
      [kind |-> "raise", file |-> file] }
        \cup { [kind |-> "raise", file |-> [exists |-> TRUE, text |-> SubSeq(text, 1, n)]] :
                 n \in 0..Len(text) }

\* lines 326-334: st.success after the dump, st.error in the except branch
save_lesson_plan_json(lesson_plan_json, file, outcome) ==
    [file |-> outcome.file,
     message |-> IF outcome.kind = "ok" THEN "success" ELSE "error"]

\* line 829 (and 837): save_lesson_plan_json(st.session_state.lesson_plan)
SaveLessonPlanJson ==
    /\ pc = "planned"
    /\ \E outcome \in SaveOutcomes(json_file, JsonDump(PyLessonPlan(lesson_plan), 0)) :
          LET res == save_lesson_plan_json(lesson_plan, json_file, outcome)
          IN  /\ json_file' = res.file
              /\ log' = Append(log, [stage |-> "save", kind |-> outcome.kind,
                                     message |-> res.message])
    /\ pc' = "saved"
    /\ UNCHANGED <<parseVars, generation_cache, subject, contexts, work, lesson_plan,
                   processed_ids, total_items, item_count, progress, document_text,
                   llm_calls, last, session_state, docx>>

NextSave == SaveLessonPlanJson

SpecSave == InitSave /\ [][NextSave]_vars

\* the last save wrote the whole file
Saved == pc = "saved" /\ log[Len(log)].kind = "ok"

\* C12: reading back the JSON that save_lesson_plan_json wrote gives a tree
\* equal to the one in memory: the same ids, titles, contents and child
\* sequences, in the same order.
C12_SnapshotRoundTrip ==
    Saved =>
        /\ json_load(json_file.text).ok
        /\ json_load(json_file.text).v = PyLessonPlan(lesson_plan)

\* a tree of three levels whose texts hold a quote, a backslash, a line break
\* and characters outside ASCII has been saved
C12_Witness ==
    /\ Saved
    /\ \E r \in DOMAIN lesson_plan.nodes :
          /\ Len(lesson_plan.nodes[r].id) = 3
          /\ r \in InForest(nodes, topics)
    /\ \E r \in DOMAIN lesson_plan.nodes :
          \E i \in 1..Len(lesson_plan.nodes[r].content) :
              NonAscii(lesson_plan.nodes[r].content[i])
    /\ \E r \in DOMAIN lesson_plan.nodes :
          \E i \in 1..Len(lesson_plan.nodes[r].content) :
              lesson_plan.nodes[r].content[i] \in {"\"", "\\", "\n"}

(***************************************************************************)
(* The documents (src/app2.py:368-514).                                    *)
(*                                                                         *)
(* A document is the sequence of the elements added to it.  An element is  *)
(* [kind, level, text, runs, line]: a heading (level, text), a list item   *)
(* ("list": level of its List Bullet style, text), a paragraph of runs     *)
(* ("para") or the paragraph of a code block ("code").  A run is [text,    *)
(* bold, italic].  `line` is the number of the input line that added the   *)
(* element.                                                                *)
(***************************************************************************)

\* s[start:end] of Python
Slice(s, start, end) ==
    LET n == Len(s)
        norm(i) == IF i < 0 THEN (IF i + n < 0 THEN 0 ELSE i + n)
                   ELSE IF i > n THEN n ELSE i
    IN  SubSeq(s, norm(start) + 1, norm(end))

\* s.find(sub, start): the first index from start at which sub occurs, or -1
RECURSIVE Find(_, _, _)
Find(s, sub, start) ==
    IF start + Len(sub) > Len(s) THEN -1
    ELSE IF SubSeq(s, start + 1, start + Len(sub)) = sub THEN start
    ELSE Find(s, sub, start + 1)

\* s.split(sep) for a non-empty sep
RECURSIVE Split(_, _)
Split(s, sep) ==
    LET at == Find(s, sep, 0)
    IN  IF at = -1 THEN <<s>>
        ELSE <<Slice(s, 0, at)>> \o Split(Slice(s, at + Len(sep), Len(s)), sep)

\* s.lstrip(chars)
RECURSIVE LStripChars(_, _)
LStripChars(s, chars) ==
    IF s # <<>> /\ Head(s) \in chars THEN LStripChars(Tail(s), chars) ELSE s

\* s.count(c) for one character
Count(s, c) == Cardinality({i \in 1..Len(s) : s[i] = c})

\* sep.join(parts)
RECURSIVE Join(_, _)
Join(parts, sep) ==
    IF parts = <<>> THEN <<>>
    ELSE IF Len(parts) = 1 THEN parts[1]
    ELSE parts[1] \o sep \o Join(Tail(parts), sep)

Stars == <<"*", "*">>
BoldMark == <<"<", "<", "B", "O", "L", "D", ">", ">">>
ItalicMark == <<"<", "<", "I", "T", "A", "L", "I", "C", ">", ">">>

\* lines 434-440: every pair of ** becomes a pair of <<BOLD>>
RECURSIVE MarkBold(_)
MarkBold(para) ==
    LET start == Find(para, Stars, 0)
        end == Find(para, Stars, start + 2)
    IN  IF start = -1 \/ end = -1 THEN para
        ELSE MarkBold(Slice(para, 0, start) \o BoldMark \o Slice(para, start + 2, end)
                      \o BoldMark \o Slice(para, end + 2, Len(para)))

\* lines 442-448: every pair of * becomes a pair of <<ITALIC>>
RECURSIVE MarkItalic(_)
MarkItalic(para) ==
    LET start == Find(para, <<"*">>, 0)
        end == Find(para, <<"*">>, start + 1)
    IN  IF start = -1 \/ end = -1 THEN para
        ELSE MarkItalic(Slice(para, 0, start) \o ItalicMark \o Slice(para, start + 1, end)
                        \o ItalicMark \o Slice(para, end + 1, Len(para)))

Run(text, bold, italic) == [text |-> text, bold |-> bold, italic |-> italic]

\* lines 453-461: the run of segment k of para.split('<<')
RunOfSegment(segment, k) ==
    IF StartsWith(segment, Slice(BoldMark, 2, 8))
    THEN Run(Slice(segment, 6, -6), TRUE, FALSE)
    ELSE IF StartsWith(segment, Slice(ItalicMark, 2, 10))
    THEN Run(Slice(segment, 8, -8), FALSE, TRUE)
    ELSE Run(segment, FALSE, FALSE)

\* lines 433-461: the runs of a paragraph line
RunsOf(para) ==
    LET segments == Split(MarkItalic(MarkBold(para)), <<"<", "<">>)
    IN  [k \in 1..Len(segments) |-> RunOfSegment(segments[k], k)]

Element(kind, level, text, runs, line) ==
    [kind |-> kind, level |-> level, text |-> text, runs |-> runs, line |-> line]

\* lines 381-383: the state of the loop over the lines; raised when a call
\* of python-docx has raised
DocxStart ==
    [in_list |-> FALSE, list_level |-> 0, in_code_block |-> FALSE, doc |-> <<>>,
     raised |-> FALSE]

\* three backquotes; the backquote is written as the name of its code point
Fence == <<"U+0060", "U+0060", "U+0060">>

\* lines 411-428: a list item; the indentation is measured on the stripped
\* line
DocxListItem(st, para, k) ==
    LET spaces == Len(para) - Len(LStrip(para))
        new_level == (spaces \div 2) + 1
        list_level == IF ~st.in_list THEN 1 ELSE new_level
        list_item == Strip(LStripChars(para, {"-", "*", " "}))
    IN  [st EXCEPT !.in_list = TRUE, !.list_level = list_level,
                   !.doc = Append(@, Element("list", list_level, list_item, <<>>, k)),
                   \* the default template has List Bullet, List Bullet 2 and 3
                   !.raised = list_level > 3]

\* lines 385-461: one line of the text
DocxLine(st, raw, k) ==
    LET para == Strip(raw)
    IN  IF st.raised THEN st
        ELSE IF StartsWith(para, Fence)
        THEN IF ~st.in_code_block
             THEN [st EXCEPT !.in_code_block = TRUE,
                             !.doc = Append(@, Element("code", 0, <<>>, <<>>, k))]
             ELSE [st EXCEPT !.in_code_block = FALSE]
        ELSE IF st.in_code_block
        THEN [st EXCEPT !.doc[Len(st.doc)].runs =
                            Append(@, Run(para \o <<"\n">>, FALSE, FALSE))]
        ELSE IF StartsWith(para, <<"#">>)
        THEN LET level == Count(para, "#")
                 heading_text == Strip(LStripChars(para, {"#", " "}))
             IN  \* add_heading raises ValueError outside 0..9
                 IF level > 9 THEN [st EXCEPT !.raised = TRUE]
                 ELSE [st EXCEPT !.doc = Append(@, Element("heading", level,
                                                            heading_text, <<>>, k))]
        ELSE IF StartsWith(para, <<"-", " ">>) \/ StartsWith(para, <<"*", " ">>)
        THEN DocxListItem(st, para, k)
        ELSE LET out == [st EXCEPT !.in_list = FALSE, !.list_level = 0]
             IN  IF MarkItalic(MarkBold(para)) = <<>> THEN out
                 ELSE [out EXCEPT !.doc = Append(@, Element("para", 0, <<>>,
                                                            RunsOf(para), k))]

RECURSIVE DocxLines(_, _, _)
DocxLines(st, paragraphs, k) ==
    IF k > Len(paragraphs) THEN st
    ELSE DocxLines(DocxLine(st, paragraphs[k], k), paragraphs, k + 1)

\* what document.save(filename) can do: write the file; raise before the
\* file is opened for writing; raise after that, with no document in the file
DocSaveOutcomes == {"ok", "raise_open", "raise_write"}

\* the end of a function that builds a document and saves it inside its try:
\* the file name is returned (ok) when no call has raised; `opened` tells
\* whether the file has been opened for writing, and doc is what it holds then
SaveDocument(st, save) ==
    IF st.raised \/ save = "raise_open" THEN [ok |-> FALSE, opened |-> FALSE, doc |-> <<>>]
    ELSE IF save = "raise_write" THEN [ok |-> FALSE, opened |-> TRUE, doc |-> <<>>]
    ELSE [ok |-> TRUE, opened |-> TRUE, doc |-> st.doc]

\* the file after the call: as it was when the call ended before writing
FileAfter(file, res) == IF res.opened THEN res.doc ELSE file

\* lines 368-468: the document saved (line 463), or None (ok = FALSE) when a
\* call of the try block, document.save included, raised
create_docx_from_markdown(text, save) ==
    SaveDocument(DocxLines(DocxStart, Split(text, <<"\n">>), 1), save)

MaxDocLines == 3

\* the lines the markdown texts are made of: headings, bullets, emphasis with
\* matched and unmatched delimiters, a code fence, plain text, an empty line
DocLines ==
    { <<"#", " ", "H">>,
      <<"#", "#", " ", "a", "#", "b">>,
      <<"-", " ", "o", "n", "e">>,
      <<" ", " ", "-", " ", "t", "w", "o">>,
      <<"*", "*", "b", "o", "*", "*", "t">>,
      <<"a", "*", "b">>,
      <<"*", "*", "o">>,
      Fence,
      <<"c">>,
      <<>> }

DocTexts == {Join(ls, <<"\n">>) : ls \in [1..MaxDocLines -> DocLines]}

\* a detailed_notes.docx an earlier run has left
OldDocument == <<Element("para", 0, <<>>, <<Run(<<"o", "l", "d">>, FALSE, FALSE)>>, 1)>>

\* document_text is about to be handed to create_docx_from_markdown (line 774),
\* with or without a document of an earlier run in the file
InitDocx ==
    /\ NoParse
    /\ generation_cache = <<>>
    /\ subject = <<"S">>
    /\ contexts = <<>>
    /\ work = <<>>
    /\ pc = "docx"
    /\ lesson_plan = <<>>
    /\ processed_ids = {}
    /\ total_items = 0
    /\ item_count = 0
    /\ progress = <<>>
    /\ document_text \in DocTexts
    /\ log = <<>>
    /\ llm_calls = <<>>
    /\ last = <<>>
    /\ session_state = <<>>
    /\ json_file = NoFile
    /\ docx \in {<<>>, OldDocument}

\* line 774: create_docx_from_markdown(document_text, filename)
CreateDocxFromMarkdown ==
    /\ pc = "docx"
    /\ \E save \in DocSaveOutcomes :
          LET res == create_docx_from_markdown(document_text, save)
          IN  /\ docx' = FileAfter(docx, res)
              /\ log' = Append(log, [stage |-> "docx",
                                     kind |-> IF res.ok THEN "ok" ELSE "raise"])
    /\ pc' = "docx_done"
    /\ UNCHANGED <<parseVars, generation_cache, subject, contexts, work, lesson_plan,
                   processed_ids, total_items, item_count, progress, document_text,
                   llm_calls, last, session_state, json_file>>

NextDocx == CreateDocxFromMarkdown

SpecDocx == InitDocx /\ [][NextDocx]_vars

\* the document of document_text has been built and saved
DocxDone == pc = "docx_done" /\ log[Len(log)].kind = "ok"

\* the lines of document_text, and whether line k lies inside a code block
Paragraphs == Split(document_text, <<"\n">>)
InCodeBlock(k) ==
    Cardinality({j \in 1..(k - 1) : StartsWith(Strip(Paragraphs[j]), Fence)}) % 2 = 1
IsFence(k) == StartsWith(Strip(Paragraphs[k]), Fence)

\* the elements line k added to the document
ElementsOf(k) == SelectSeq(docx, LAMBDA e : e.line = k)

\* the line **x**y with x and y non-empty and free of asterisks: its x and y
BoldForm(para) ==
    LET end == Find(para, Stars, 2)
        x == Slice(para, 2, end)
        y == Slice(para, end + 2, Len(para))
    IN  IF StartsWith(para, Stars) /\ end > 2 /\ y # <<>>
           /\ Count(x, "*") = 0 /\ Count(y, "*") = 0
        THEN [ok |-> TRUE, x |-> x, y |-> y]
        ELSE [ok |-> FALSE, x |-> <<>>, y |-> <<>>]

\* the texts of the runs, concatenated
RECURSIVE RunText(_)
RunText(runs) == IF runs = <<>> THEN <<>> ELSE Head(runs).text \o RunText(Tail(runs))

\* the runs that carry text
Visible(runs) == SelectSeq(runs, LAMBDA r : r.text # <<>>)

\* C13: a line **x**y outside a code block gives one paragraph whose runs are
\* x in bold and then y not in bold, no character lost; and the elements of
\* the document are in the order of the lines that added them.
C13_BoldThenPlain ==
    DocxDone =>
        /\ \A i, j \in 1..Len(docx) : i < j => docx[i].line <= docx[j].line
        /\ \A k \in 1..Len(Paragraphs) :
              LET f == BoldForm(Strip(Paragraphs[k]))
              IN  f.ok /\ ~InCodeBlock(k) =>
                    /\ Len(ElementsOf(k)) = 1
                    /\ ElementsOf(k)[1].kind = "para"
                    /\ RunText(ElementsOf(k)[1].runs) = f.x \o f.y
                    /\ Visible(ElementsOf(k)[1].runs)
                         = <<Run(f.x, TRUE, FALSE), Run(f.y, FALSE, FALSE)>>

(***************************************************************************)
(* create_docx_from_lesson_plan (lines 470-514): the lesson plan of the    *)
(* session written as a document, one heading per node followed by the     *)
(* lines of its content.                                                   *)
(***************************************************************************)
\* python-docx: add_heading raises ValueError for a level outside 0..9
HeadingLevels == 0..9

PlanElement(kind, level, text, node, own) ==
    [kind |-> kind, level |-> level, text |-> text, node |-> node, own |-> own]

PlanDocStart == [doc |-> <<>>, raised |-> FALSE]

\* document.add_heading(text, level=level) while adding node r
AddHeading(st, text, level, r, own) ==
    IF st.raised THEN st
    ELSE IF level \notin HeadingLevels THEN [st EXCEPT !.raised = TRUE]
    ELSE [st EXCEPT !.doc = Append(@, PlanElement("heading", level, text, r, own))]

\* lines 490-502: one line of the content of node r
AddContentLine(st, raw, r) ==
    LET para == Strip(raw)
    IN  IF st.raised THEN st
        ELSE IF StartsWith(para, <<"#", " ">>)
        THEN AddHeading(st, Slice(para, 2, Len(para)), 1, r, FALSE)
        ELSE IF StartsWith(para, <<"#", "#", " ">>)
        THEN AddHeading(st, Slice(para, 3, Len(para)), 2, r, FALSE)
        ELSE IF StartsWith(para, <<"#", "#", "#", " ">>)
        THEN AddHeading(st, Slice(para, 4, Len(para)), 3, r, FALSE)
        ELSE IF StartsWith(para, <<"#", "#", "#", "#", " ">>)
        THEN AddHeading(st, Slice(para, 5, Len(para)), 4, r, FALSE)
        ELSE IF StartsWith(para, <<"-", " ">>)
        THEN [st EXCEPT !.doc = Append(@, PlanElement("bullet", 0, Slice(para, 2, Len(para)),
                                                      r, FALSE))]
        ELSE IF para # <<>>
        THEN [st EXCEPT !.doc = Append(@, PlanElement("para", 0, para, r, FALSE))]
        ELSE st

\* lines 488-489: for para in paragraphs
RECURSIVE AddContentLines(_, _, _)
AddContentLines(st, paragraphs, r) ==
    IF paragraphs = <<>> THEN st
    ELSE AddContentLines(AddContentLine(st, Head(paragraphs), r), Tail(paragraphs), r)

\* data.get(key, []) of the dict of a node
KidsUnder(n, key) == IF n.key = key THEN n.kids ELSE <<>>

\* lines 479-505: add_content on a list and on the dict of node r
RECURSIVE add_content_list(_, _, _, _), add_content_dict(_, _, _, _)
add_content_list(plan, st, data, level) ==
    IF data = <<>> THEN st
    ELSE add_content_list(plan, add_content_dict(plan, st, Head(data), level), Tail(data), level)
add_content_dict(plan, st, r, level) ==
    LET n == plan.nodes[r]
        d1 == AddHeading(st, IdText(n.id) \o <<":", " ">> \o n.title, level, r, TRUE)
        d2 == AddContentLines(d1, Split(n.content, <<"\n">>), r)
        d3 == add_content_list(plan, d2, KidsUnder(n, "subtopics"), level + 1)
        d4 == add_content_list(plan, d3, KidsUnder(n, "subsubtopics"), level + 2)
    IN  IF st.raised THEN st
        ELSE add_content_list(plan, d4, KidsUnder(n, "subsubsubtopics"), level + 3)

\* lines 470-514: the document saved (line 509), or None after an exception
create_docx_from_lesson_plan(lesson_plan_json, save) ==
    SaveDocument(add_content_list(lesson_plan_json, PlanDocStart, lesson_plan_json.topics, 2),
                 save)

MaxPlanDocLines == 4

PlanDocPaths ==
    { <<"1">>, Dot(<<"1">>, <<"1">>), Dot(Dot(<<"1">>, <<"1">>), <<"1">>),
      Dot(Dot(Dot(<<"1">>, <<"1">>), <<"1">>), <<"1">>) }

\* contents with the line forms of lines 491-502
PlanDocContents ==
    << <<>>,
       <<"#", " ", "a">>,
       <<"#", "#", " ", "b", "\n", " ", "-", " ", "c">>,
       <<"x", "\n", "\n", "#", "#", "#", "#", " ", "d", "\n", "#", "#", "#", " ", "e">> >>

PlanDocTexts ==
    { [i \in 1..MaxPlanDocLines |-> PathLine(c[i], <<"t">>)] :
        c \in [1..MaxPlanDocLines -> PlanDocPaths] }

\* st.session_state.lesson_plan holds a tree of stage 1 (line 828)
InitPlanDocx ==
    \E text \in PlanDocTexts, shift \in 0..3 :
        LET q == parse_roadmap(text)
            contentOf == [r \in 1..Len(text) |-> PlanDocContents[((r + shift) % 4) + 1]]
        IN  /\ lines = text
            /\ line_no = Len(text) + 1
            /\ nodes = q.nodes
            /\ topics = q.topics
            /\ current_topic = q.current_topic
            /\ current_subtopic = q.current_subtopic
            /\ current_subsubtopic = q.current_subsubtopic
            /\ current_subsubsubtopic = q.current_subsubsubtopic
            /\ generation_cache = <<>>
            /\ subject = <<"S">>
            /\ contexts = <<>>
            /\ work = <<>>
            /\ pc = "planned"
            /\ lesson_plan =
                 BuildPlan(q.nodes,
                           [subject |-> <<"S">>, difficulty |-> Difficulty,
                            topics |-> <<>>, nodes |-> <<>>],
                           PlanRootCalls(q.topics, DefaultDepth), contentOf)
            /\ processed_ids = {}
            /\ total_items = 0
            /\ item_count = 0
            /\ progress = <<>>
            /\ document_text = <<>>
            /\ log = <<>>
            /\ llm_calls = <<>>
            /\ last = <<>>
            /\ NoOutput

\* line 841: create_docx_from_lesson_plan(st.session_state.lesson_plan, ...);
\* the file is written only when no call has raised
CreateDocxFromLessonPlan ==
    /\ pc = "planned"
    /\ \E save \in DocSaveOutcomes :
          LET res == create_docx_from_lesson_plan(lesson_plan, save)
          IN  /\ docx' = FileAfter(docx, res)
              /\ log' = Append(log, [stage |-> "plan_docx",
                                     kind |-> IF res.ok THEN "ok" ELSE "raise"])
    /\ pc' = "plan_docx_done"
    /\ UNCHANGED <<parseVars, generation_cache, subject, contexts, work, lesson_plan,
                   processed_ids, total_items, item_count, progress, document_text,
                   llm_calls, last, session_state, json_file>>

NextPlanDocx == CreateDocxFromLessonPlan

SpecPlanDocx == InitPlanDocx /\ [][NextPlanDocx]_vars

\* the document of the lesson plan has been built and saved
PlanDocxDone == pc = "plan_docx_done" /\ log[Len(log)].kind = "ok"

\* the headings "id: title" of the nodes, in the order of the document
NodeHeadings == SelectSeq(docx, LAMBDA e : e.own)

\* C14: in the document of a lesson plan of stage 1, the heading of a node
\* whose id has k components has level k + 1 (k = 1..4).
C14_HeadingLevelByDepth ==
    PlanDocxDone =>
        \A i \in 1..Len(NodeHeadings) :
            NodeHeadings[i].level = Len(lesson_plan.nodes[NodeHeadings[i].node].id) + 1

(***************************************************************************)
(* The session (lines 780-870).  Every interaction runs the script again   *)
(* from its first line, so generation_cache is a new dict in each run      *)
(* (line 30); st.session_state is what one run hands to the next.  pc is   *)
(* "ui" between two runs.  A pressed button is one step up to the first    *)
(* call of the recursion it starts; the calls of the recursion are the     *)
(* steps of Spec; the lines after the recursion are one more step.         *)
(***************************************************************************)
MaxClicks == 3

\* the keys of st.session_state
LessonPlanKey == "lesson_plan"
\* a plausible slip: the roadmap is stored under the key of the lesson plan
RoadmapKeyMixedUp == "lesson_plan"
RoadmapKey == "roadmap"
NotesFilenameKey == "notes_filename"

\* st.session_state.key = value
SessionWith(ss, key, value) == (key :> value) @@ ss

\* "roadmap" in st.session_state (lines 807, 822), "lesson_plan" in
\* st.session_state (lines 832, 848)
RoadmapStored(ss) == "roadmap" \in DOMAIN ss
LessonPlanStored(ss) == "lesson_plan" \in DOMAIN ss

\* the text of the uploaded syllabus
Syllabi == {<<"x">>}

\* roadmaps the service answers with, and the user types into the text area:
\* one topic, and two topics with one id
SessionRoadmaps ==
    { PathLine(<<"1">>, <<"a">>),
      Join(<<PathLine(<<"1">>, <<"a">>), PathLine(<<"1">>, <<"b">>)>>, <<"\n">>) }

\* where the depth slider of line 816 stands in a session: where it starts
SessionDepths == {DefaultDepth}

\* the runs the user has started so far, each by the use of one widget
Clicks == Len(SelectSeq(log, LAMBDA e : e.stage = "click"))
Click(button) == [stage |-> "click", button |-> button]

\* lines 834, 343-354: display_lesson_plan_for_editing makes one text area
\* with the key f"{id}_content" per node; Streamlit ends the run with
\* DuplicateWidgetID when a key is used twice, and the lines below line 834
\* are not reached
Displayable(plan) ==
    LET order == PlanPreOrderAll(plan.nodes, plan.topics)
    IN  \A i, j \in 1..Len(order) :
            plan.nodes[order[i]].id = plan.nodes[order[j]].id => i = j

\* lines 343-354: the nodes whose text area the display makes, in its order:
\* the ones met before the first node whose key has been used already
EditableNodes(plan) ==
    LET order == PlanPreOrderAll(plan.nodes, plan.topics)
        Fresh(j) == \A i \in 1..(j - 1) : plan.nodes[order[i]].id # plan.nodes[order[j]].id
    IN  {order[j] : j \in {k \in 1..Len(order) : \A m \in 1..k : Fresh(m)}}

\* what the user types into a text area "Content"
TypedContents == {<<"e">>}

\* what the user has typed before a run starts: nothing, or a text in the
\* text area of one node
NoTyping == [node |-> None, content |-> <<>>]
TypingsIn(rs) ==
    {NoTyping} \cup {[node |-> r, content |-> c] : r \in rs, c \in TypedContents}
Typings(ss) ==
    IF "lesson_plan" \in DOMAIN ss
    THEN TypingsIn(EditableNodes(ss["lesson_plan"]))
    ELSE {NoTyping}

\* lines 336-341 with 347-355: every text area returns the content of its
\* node, or what the user typed into it, and display_topic assigns that to
\* topic["content"]
display_lesson_plan_for_editing(plan, typed) ==
    IF typed.node = None THEN plan
    ELSE [plan EXCEPT !.nodes[typed.node].content = typed.content]

\* lines 832-834: the session after the display of the stored lesson plan
Displayed(ss, typed) ==
    IF "lesson_plan" \in DOMAIN ss
    THEN SessionWith(ss, "lesson_plan",
                     display_lesson_plan_for_editing(ss["lesson_plan"], typed))
    ELSE ss

\* what a run of the script before any button is pressed leaves
InitSession ==
    /\ NoParse
    /\ generation_cache = <<>>
    /\ subject = <<"S">>
    /\ contexts = <<>>
    /\ pc = "ui"
    /\ work = <<>>
    /\ lesson_plan = <<>>
    /\ processed_ids = {}
    /\ total_items = 0
    /\ item_count = 0
    /\ progress = <<>>
    /\ document_text = <<>>
    /\ log = <<>>
    /\ llm_calls = <<>>
    /\ last = <<>>
    /\ NoOutput

\* lines 801-805: the button "Generate Roadmap" on an uploaded syllabus
GenerateRoadmap ==
    /\ pc = "ui"
    /\ Clicks < MaxClicks
    /\ \E syllabus_text \in Syllabi :
         \E outcome \in {Raises, NoText} \cup {Answers(t) : t \in SessionRoadmaps} :
           LET res == generate_roadmap(<<>>, subject, syllabus_text, Difficulty,
                                       PlanTemperature, outcome)
           IN  /\ generation_cache' = res.cache
               /\ \E typed \in Typings(session_state) :
                     session_state' =
                         Displayed(SessionWith(session_state, RoadmapKey, res.ret), typed)
               /\ llm_calls' = Append(llm_calls,
                                      roadmap_prompt(subject, syllabus_text, Difficulty))
    /\ log' = Append(log, Click("Generate Roadmap"))
    /\ UNCHANGED <<parseVars, subject, contexts, pc, work, lesson_plan, processed_ids,
                   total_items, item_count, progress, document_text, last, json_file, docx>>

\* lines 807-811: the button "Save Edited Roadmap"
SaveEditedRoadmap ==
    /\ pc = "ui"
    /\ Clicks < MaxClicks
    /\ RoadmapStored(session_state)
    /\ \E edited_roadmap_text \in SessionRoadmaps, typed \in Typings(session_state) :
         session_state' =
             Displayed(SessionWith(session_state, RoadmapKey, edited_roadmap_text), typed)
    /\ generation_cache' = <<>>
    /\ log' = Append(log, Click("Save Edited Roadmap"))
    /\ UNCHANGED <<parseVars, subject, contexts, pc, work, lesson_plan, processed_ids,
                   total_items, item_count, progress, document_text, llm_calls, last,
                   json_file, docx>>

\* lines 822-826 with 259-264: the button "Generate Lesson Plan", up to the
\* first call of generate_lesson_plan_chunk_json
GenerateLessonPlan ==
    /\ pc = "ui"
    /\ Clicks < MaxClicks
    /\ RoadmapStored(session_state)
    /\ \E depth \in SessionDepths :
         LET text == Split(session_state[RoadmapKey], <<"\n">>)
             q == parse_roadmap(text)
         IN  IF q.raised
             THEN \* the ValueError of an int() of line 259 ends the run of the
                  \* script: no plan is built, stored or saved
                  /\ UNCHANGED <<parseVars, pc, work, lesson_plan>>
             ELSE /\ lines' = text
                  /\ line_no' = Len(text) + 1
                  /\ nodes' = q.nodes
                  /\ topics' = q.topics
                  /\ current_topic' = q.current_topic
                  /\ current_subtopic' = q.current_subtopic
                  /\ current_subsubtopic' = q.current_subsubtopic
                  /\ current_subsubsubtopic' = q.current_subsubsubtopic
                  /\ work' = PlanRootCalls(q.topics, depth)
                  /\ pc' = IF q.topics = <<>> THEN "planned" ELSE "plan"
                  /\ lesson_plan' = [subject |-> subject, difficulty |-> Difficulty,
                                     topics |-> <<>>, nodes |-> <<>>]
    /\ generation_cache' = <<>>
    /\ contexts' = <<>>
    /\ log' = Append(log, Click("Generate Lesson Plan"))
    /\ UNCHANGED <<subject, processed_ids, total_items, item_count, progress,
                   document_text, llm_calls, last, outVars>>

\* the text areas a run that stores a new lesson plan can find typed into:
\* those of its nodes whose key was on the page before the run
StoreTypings(ss, plan) ==
    IF "lesson_plan" \in DOMAIN ss
    THEN TypingsIn({r \in EditableNodes(plan) :
                      \E q \in EditableNodes(ss["lesson_plan"]) :
                         ss["lesson_plan"].nodes[q].id = plan.nodes[r].id})
    ELSE {NoTyping}

\* lines 829-830 and 837-838: save_lesson_plan_json returns None on both of
\* its paths, and the st.success of the next line follows whatever it did;
\* the messages of one save, in the order shown
ShownBySave(res) == <<res.message, "success">>

\* lines 828-834: the lesson plan is stored in the session and saved, and the
\* rest of the run displays it; the dict generated, stored and displayed is
\* one object
StoreLessonPlan ==
    /\ pc = "planned"
    /\ \E typed \in StoreTypings(session_state, lesson_plan) :
          /\ lesson_plan' = display_lesson_plan_for_editing(lesson_plan, typed)
          /\ session_state' =
                SessionWith(session_state, LessonPlanKey,
                            display_lesson_plan_for_editing(lesson_plan, typed))
          /\ \E outcome \in SaveOutcomes(json_file, JsonDump(PyLessonPlan(lesson_plan), 0)) :
                LET res == save_lesson_plan_json(lesson_plan, json_file, outcome)
                IN  /\ json_file' = res.file
                    /\ log' = Append(log, [stage |-> "save", kind |-> outcome.kind,
                                           message |-> res.message,
                                           shown |-> ShownBySave(res),
                                           typed |-> typed])
    /\ pc' = "ui"
    /\ UNCHANGED <<parseVars, generation_cache, subject, contexts, work,
                   processed_ids, total_items, item_count, progress, document_text,
                   llm_calls, last, docx>>

\* lines 832-834 in a run no button starts: the user has left a text area
\* "Content" after typing into it
DisplayLessonPlanForEditing ==
    /\ pc = "ui"
    /\ Clicks < MaxClicks
    /\ LessonPlanStored(session_state)
    /\ \E typed \in Typings(session_state) \ {NoTyping} :
          session_state' = Displayed(session_state, typed)
    /\ generation_cache' = <<>>
    /\ log' = Append(log, Click("Content"))
    /\ UNCHANGED <<parseVars, subject, contexts, pc, work, lesson_plan, processed_ids,
                   total_items, item_count, progress, document_text, llm_calls, last,
                   json_file, docx>>

\* lines 832-838: the button "Save Edited Lesson Plan"
SaveEditedLessonPlan ==
    /\ pc = "ui"
    /\ Clicks < MaxClicks
    /\ LessonPlanStored(session_state)
    /\ Displayable(session_state[LessonPlanKey])
    /\ \E typed \in Typings(session_state) :
          LET With(ss) ==
                /\ session_state' = ss
                /\ \E outcome \in SaveOutcomes(json_file,
                                       JsonDump(PyLessonPlan(ss[LessonPlanKey]), 0)) :
                      LET res == save_lesson_plan_json(ss[LessonPlanKey], json_file,
                                                       outcome)
                      IN  /\ json_file' = res.file
                          /\ log' = log \o <<Click("Save Edited Lesson Plan"),
                                              [stage |-> "save", kind |-> outcome.kind,
                                               message |-> res.message,
                                               shown |-> ShownBySave(res),
                                               typed |-> typed]>>
          IN  With(Displayed(session_state, typed))
    /\ generation_cache' = <<>>
    /\ UNCHANGED <<parseVars, subject, contexts, pc, work, lesson_plan, processed_ids,
                   total_items, item_count, progress, document_text, llm_calls, last,
                   docx>>

\* lines 832-834, 840-841: the button "Download Edited Lesson Plan as docx"
DownloadLessonPlanDocx ==
    /\ pc = "ui"
    /\ Clicks < MaxClicks
    /\ LessonPlanStored(session_state)
    /\ Displayable(session_state[LessonPlanKey])
    /\ \E typed \in Typings(session_state), save \in DocSaveOutcomes :
          LET With(ss) ==
                /\ session_state' = ss
                /\ docx' = FileAfter(docx,
                                     create_docx_from_lesson_plan(ss[LessonPlanKey], save))
          IN  With(Displayed(session_state, typed))
    /\ generation_cache' = <<>>
    /\ log' = Append(log, Click("Download Edited Lesson Plan as docx"))
    /\ UNCHANGED <<parseVars, subject, contexts, pc, work, lesson_plan, processed_ids,
                   total_items, item_count, progress, document_text, llm_calls, last,
                   json_file>>

\* lines 832-834, 848-853 with 717-735, 772: the button "Generate Detailed
\* Notes", up to the first call of generate_notes_recursive
GenerateDetailedNotes ==
    /\ pc = "ui"
    /\ Clicks < MaxClicks
    /\ LessonPlanStored(session_state)
    /\ Displayable(session_state[LessonPlanKey])
    /\ \E typed \in Typings(session_state) :
          LET With(plan) ==
                /\ session_state' = SessionWith(session_state, LessonPlanKey, plan)
                /\ lesson_plan' = plan
                /\ total_items' = count_items_recursive(plan)
                /\ work' = NotesCalls(plan.topics, None)
                /\ pc' = IF plan.topics = <<>> THEN "notes_done" ELSE "notes"
          IN  With(display_lesson_plan_for_editing(session_state[LessonPlanKey], typed))
    /\ item_count' = 0
    /\ progress' = <<Frac(0, 1)>>
    /\ processed_ids' = {}
    /\ document_text' = <<>>
    /\ contexts' = <<>>
    /\ generation_cache' = <<>>
    /\ log' = Append(log, Click("Generate Detailed Notes"))
    /\ UNCHANGED <<parseVars, subject, llm_calls, last, json_file, docx>>

\* lines 773-778 and 855-856: the notes are written as a document and its
\* name is stored in the session
StoreNotesFilename ==
    /\ pc = "notes_done"
    /\ \E save \in DocSaveOutcomes :
          LET res == create_docx_from_markdown(document_text, save)
          IN  /\ docx' = FileAfter(docx, res)
              /\ session_state' = IF res.ok
                                  THEN SessionWith(session_state, NotesFilenameKey,
                                                   "detailed_notes.docx")
                                  ELSE session_state
              /\ log' = Append(log, [stage |-> "docx",
                                     kind |-> IF res.ok THEN "ok" ELSE "raise"])
    /\ pc' = "ui"
    /\ UNCHANGED <<parseVars, generation_cache, subject, contexts, work, lesson_plan,
                   processed_ids, total_items, item_count, progress, document_text,
                   llm_calls, last, json_file>>

\* a lesson plan the page displays has no id twice, so generate_notes_recursive
\* passes over no node
NextSession ==
    \/ GenerateRoadmap
    \/ SaveEditedRoadmap
    \/ GenerateLessonPlan
    \/ GenerateLessonPlanChunkJson
    \/ StoreLessonPlan
    \/ DisplayLessonPlanForEditing
    \/ SaveEditedLessonPlan
    \/ DownloadLessonPlanDocx
    \/ GenerateDetailedNotes
    \/ GenerateNotes
    \/ StoreNotesFilename

SpecSession == InitSession /\ [][NextSession]_vars

\* a handler has stored a lesson plan it generated: line 828 was reached
PlanGenerated == \E n \in 1..Len(log) : log[n].stage = "save"

\* C15: lecture-notes generation starts only when a lesson plan is stored in
\* the session, and a lesson plan is stored only by a finished lesson-plan
\* generation; lesson-plan generation starts only when a roadmap is stored in
\* the session.
C15_StageOrdering ==
    [][ /\ (pc = "ui" /\ pc' \in {"notes", "notes_done"}) =>
              /\ "lesson_plan" \in DOMAIN session_state
              /\ PlanGenerated
              /\ lesson_plan' = session_state'["lesson_plan"]
        /\ ("lesson_plan" \in DOMAIN session_state' /\ "lesson_plan" \notin DOMAIN session_state)
              => pc = "planned"
        /\ (pc = "ui" /\ pc' \in {"plan", "planned"}) => "roadmap" \in DOMAIN session_state
      ]_vars

\* lecture notes have been generated in a session
C15_Witness == pc = "notes_done" /\ NotesLog # <<>> /\ PlanGenerated

\* C16: once the response for a prompt is stored, the prompt stays in
\* generation_cache with the same value through every later call and every
\* later run of the script.
C16_NoEviction ==
    [][ \A key \in DOMAIN generation_cache :
            /\ key \in DOMAIN generation_cache'
            /\ generation_cache'[key] = generation_cache[key] ]_vars

\* C17: in both stages the parent-context section of the prompt of a node is
\* the context the node inherited: its keys are the ids of the strict
\* ancestors of the node, and the node's own id and title are not among them.
C17_InheritedContextOnly ==
    \A n \in 1..Len(log) :
        /\ log[n].prompt.context = log[n].inherited
        /\ DictKeys(log[n].prompt.context) = {nodes[a].id : a \in AncestorsOf(log[n].node)}
        /\ <<log[n].id, nodes[log[n].node].description>>
              \notin {log[n].prompt.context[i] : i \in 1..Len(log[n].prompt.context)}

\* the position of node r in a sequence of nodes that holds it
IndexIn(order, r) == CHOOSE k \in 1..Len(order) : order[k] = r

\* the visits of a stage follow the depth-first order `order` of its tree:
\* each visited node is met later in `order` than the ones visited before it,
\* and the parent of a visited node was visited before it
FollowsPreOrder(visits, order) ==
    /\ \A j \in 1..Len(visits) :
          /\ \E k \in 1..Len(order) : order[k] = visits[j].node
          /\ ParentOf(visits[j].node) # None =>
                \E i \in 1..(j - 1) : visits[i].node = ParentOf(visits[j].node)
    /\ \A i, j \in 1..Len(visits) :
          i < j => IndexIn(order, visits[i].node) < IndexIn(order, visits[j].node)

\* C18: in both stages the request for a node comes before the requests for
\* its descendants, and the children of a node are processed in their stored
\* order, the whole subtree of a child before the next child; stage 1 leaves
\* out no node.
C18_PreOrder ==
    /\ FollowsPreOrder(PlanLog, PlanPreOrderAll(nodes, topics))
    /\ [n \in 1..Len(PlanLog) |-> PlanLog[n].node]
         = SubSeq(PlanPreOrderAll(nodes, topics), 1, Len(PlanLog))
    /\ NotesLog # <<>> =>
          FollowsPreOrder(NotesLog, PlanPreOrderAll(lesson_plan.nodes, lesson_plan.topics))

\* both stages have run over a tree with a node that has two children, one of
\* them with a child of its own
C18_Witness ==
    /\ pc = "notes_done"
    /\ Len(NotesLog) = 4
    /\ \E r \in DOMAIN nodes :
          /\ Len(nodes[r].kids) = 2
          /\ nodes[nodes[r].kids[1]].kids # <<>>

(***************************************************************************)
(* The attachment rule of parse_roadmap, checked under SpecAttach.         *)
(***************************************************************************)
\* texts with a line of each level, a line no pattern matches and a blank line
AttachPaths ==
    { <<"1">>, Dot(<<"1">>, <<"1">>), Dot(Dot(<<"1">>, <<"1">>), <<"1">>),
      Dot(Dot(Dot(<<"1">>, <<"1">>), <<"1">>), <<"1">>) }

InitAttach ==
    /\ lines \in TextsOf(MaxLines, AttachPaths, OtherLines)
    /\ line_no = 1
    /\ nodes = EmptyParse.nodes
    /\ topics = EmptyParse.topics
    /\ current_topic = None
    /\ current_subtopic = None
    /\ current_subsubtopic = None
    /\ current_subsubsubtopic = None
    /\ IdleGen

SpecAttach == InitAttach /\ [][NextParse]_vars

\* the level of the pattern line i matches (0: blank or unmatched)
LevelOfLine(i) ==
    LET kind == LineKind(lines[i])
    IN  CASE kind = "main" -> 1 [] kind = "sub" -> 2 [] kind = "subsub" -> 3
          [] kind = "subsubsub" -> 4 [] OTHER -> 0

\* the greatest member of a set of line numbers (None for the empty set)
LastOf(c) == IF c = {} THEN None ELSE CHOOSE j \in c : \A k \in c : k <= j

\* the levels of the lines of the text
LevelsOfLines == [i \in 1..Len(lines) |-> LevelOfLine(i)]

\* the most recent matched line before line i at a level below `level`, in a
\* text whose lines have the levels lv
PrevBelow(lv, i, level) ==
    LastOf({j \in 1..(i - 1) : lv[j] > 0 /\ lv[j] < level})

\* the tracked current node of a level
CurrentAt(level) ==
    CASE level = 1 -> current_topic [] level = 2 -> current_subtopic
      [] level = 3 -> current_subsubtopic [] level = 4 -> current_subsubsubtopic

\* the tracked node a consumed text leaves at `level`: the most recent
\* matched line at that level or below, when it is at that level
TrackedAt(lv, level) ==
    LET j == LastOf({k \in 1..(line_no - 1) : lv[k] > 0 /\ lv[k] <= level})
    IN  IF j # None /\ lv[j] = level THEN j ELSE None

\* the node of line i hangs under the node of line q, as its last child at
\* the time of line i
LastChildOf(i, q) ==
    /\ \E k \in 1..Len(nodes[q].kids) : nodes[q].kids[k] = i
    /\ \A k \in 1..Len(nodes[q].kids) : \A m \in 1..(k - 1) :
          nodes[q].kids[m] < nodes[q].kids[k]

\* C19: after any number of lines, the lines matched at level 1 are the
\* roots of the forest in input order; a line matched at level L > 1 is in
\* the forest exactly when the most recent matched line before it at a level
\* below L is at level L-1 and is in the forest, and it is then appended last
\* to the children of that line's node; a line at level L leaves no tracked
\* node at a deeper level, so no node hangs under a node from before a line
\* at the level of that node or above it.
C19_AttachmentRule ==
    pc = "parse" =>
        LET lv == LevelsOfLines
            forest == InForest(nodes, topics)
        IN  /\ \A k \in 1..Len(topics) : lv[topics[k]] = 1
            /\ \A i \in 1..(line_no - 1) :
                  lv[i] = 1 => \E k \in 1..Len(topics) : topics[k] = i
            /\ \A k \in 1..Len(topics) : \A m \in 1..(k - 1) : topics[m] < topics[k]
            /\ \A i \in 1..(line_no - 1) :
                  lv[i] > 1 =>
                     LET q == PrevBelow(lv, i, lv[i])
                         attached == /\ q # None
                                     /\ lv[q] = lv[i] - 1
                                     /\ q \in forest
                     IN  /\ i \in forest <=> attached
                         /\ attached => LastChildOf(i, q)
            /\ \A level \in 1..4 : CurrentAt(level) = TrackedAt(lv, level)
            /\ \A q \in DOMAIN nodes : \A k \in 1..Len(nodes[q].kids) :
                  /\ q < nodes[q].kids[k]
                  /\ \A j \in (q + 1)..(nodes[q].kids[k] - 1) :
                        lv[j] = 0 \/ lv[j] > lv[q]

\* a text has been parsed in which one node hangs under a node of the forest
\* and another under a node left out of the forest
C19_Witness ==
    /\ ParseDone
    /\ \E r \in InForest(nodes, topics) : nodes[r].kids # <<>>
    /\ \E r \in DOMAIN nodes \ InForest(nodes, topics) : nodes[r].kids # <<>>

\* C20: started with depth 1, stage 1 hands build_prompt_with_hierarchy, for
\* each node, a depth equal to the number of components of the id of the
\* node: each child is processed at the depth of its parent plus 1.
C20_DepthIsIdLength ==
    \A n \in 1..Len(PlanLog) :
        /\ PlanLog[n].depth = Len(PlanLog[n].id)
        /\ ParentOf(PlanLog[n].node) # None =>
              \A i \in PlanVisits(ParentOf(PlanLog[n].node)) :
                  PlanLog[n].depth = PlanLog[i].depth + 1

\* a line that is no fence, heading or list item
PlainKind(para) ==
    /\ para # <<>>
    /\ ~StartsWith(para, Fence)
    /\ ~StartsWith(para, <<"#">>)
    /\ ~StartsWith(para, <<"-", " ">>)
    /\ ~StartsWith(para, <<"*", " ">>)

\* a line with an unmatched delimiter: a lone asterisk, or an opening pair of
\* asterisks with no closing pair
UnmatchedForm(para) ==
    /\ PlainKind(para)
    /\ \/ Count(para, "*") = 1
       \/ /\ Find(para, Stars, 0) # -1
          /\ Find(para, Stars, Find(para, Stars, 0) + 2) = -1

\* C21: a line that is no heading and no list item and holds an unmatched
\* delimiter gives one paragraph whose runs, concatenated, are the line, none
\* of them bold or italic; and a text of such lines and plain lines is
\* converted without failure.
C21_UnmatchedLiteral ==
    pc = "docx_done" =>
        /\ (\A k \in 1..Len(Paragraphs) :
               Strip(Paragraphs[k]) = <<>> \/ PlainKind(Strip(Paragraphs[k])))
              => log[Len(log)].kind = "ok"
        /\ DocxDone =>
              \A k \in 1..Len(Paragraphs) :
                 UnmatchedForm(Strip(Paragraphs[k])) /\ ~InCodeBlock(k) =>
                    /\ Len(ElementsOf(k)) = 1
                    /\ ElementsOf(k)[1].kind = "para"
                    /\ RunText(ElementsOf(k)[1].runs) = Strip(Paragraphs[k])
                    /\ \A n \in 1..Len(ElementsOf(k)[1].runs) :
                          /\ ~ElementsOf(k)[1].runs[n].bold
                          /\ ~ElementsOf(k)[1].runs[n].italic

\* a line that is a bullet item once stripped
IsBullet(raw) ==
    StartsWith(Strip(raw), <<"-", " ">>) \/ StartsWith(Strip(raw), <<"*", " ">>)

\* the leading spaces of a line of the text
LeadingSpaces(raw) == Len(raw) - Len(LStrip(raw))

\* C22: a bullet line with 2k leading spaces that follows a list item is
\* emitted as a list item at nesting level k + 1.
C22_NestedBulletLevel ==
    DocxDone =>
        \A k \in 2..Len(Paragraphs) :
            /\ IsBullet(Paragraphs[k]) /\ IsBullet(Paragraphs[k - 1])
            /\ ~InCodeBlock(k)
            /\ LeadingSpaces(Paragraphs[k]) % 2 = 0
            => /\ Len(ElementsOf(k)) = 1
               /\ ElementsOf(k)[1].kind = "list"
               /\ ElementsOf(k)[1].level = (LeadingSpaces(Paragraphs[k]) \div 2) + 1

\* C23: for the id of every node of the lesson-plan tree,
\* extract_lesson_plan_entry returns the content of that node, "" included,
\* and the lecture-notes prompt of a node embeds the content of that node.
C23_LookupById ==
    /\ pc \in {"planned", "notes", "notes_done"} =>
          \A r \in DOMAIN lesson_plan.nodes :
              extract_lesson_plan_entry(lesson_plan, lesson_plan.nodes[r].id)
                 = SomeEntry(lesson_plan.nodes[r].content)
    /\ \A n \in 1..Len(NotesLog) :
          NotesLog[n].prompt.text = lesson_plan.nodes[NotesLog[n].node].content

(***************************************************************************)
(* Failure messages of the two generation stages.                          *)
(***************************************************************************)
\* the id's text occurs in one of the message's interpolated values
NamesNode(message, id) ==
    \E v \in 1..Len(message.values) : Find(message.values[v], IdText(id), 0) # -1

\* the message's fixed text names the stage of the failed request
NamesStage(message, stage) ==
    LET said == {message.words[w] : w \in 1..Len(message.words)}
    IN  IF stage = "plan" THEN {"lesson", "plan"} \subseteq said
        ELSE {"lecture", "notes"} \cap said # {}

\* C24: for each failed request of the lesson-plan stage and of the
\* lecture-notes stage, the message shown for the failure identifies both the
\* id of the node and the stage
C24_FailureNamesNodeAndStage ==
    \A n \in 1..Len(log) :
        log[n].stage \in {"plan", "notes"} /\ Failed(log[n]) =>
            /\ log[n].error # NoMessage
            /\ NamesNode(log[n].error, log[n].id)
            /\ NamesStage(log[n].error, log[n].stage)

(***************************************************************************)
(* A failed write of lesson_plan.json, seen from the two callers.          *)
(***************************************************************************)
\* the step is a save (lines 828-830 or 836-838) whose write failed
FailedSaveStep ==
    /\ Len(log') > Len(log)
    /\ log'[Len(log')].stage = "save"
    /\ log'[Len(log')].kind = "raise"

\* the tree the run of the save started with: the one line 828 stores, or
\* the one held since
TreeBeforeSave ==
    IF pc = "planned" THEN lesson_plan ELSE session_state[LessonPlanKey]

\* C25: when the write of lesson_plan.json fails inside save_lesson_plan_json,
\* the lesson-plan tree held in the session is exactly as before the call (the
\* run changes it by what was typed into a text area and by nothing else), and
\* no success is reported for that save
C25_FailedSaveSurfaced ==
    [][FailedSaveStep =>
          /\ session_state'[LessonPlanKey]
                = display_lesson_plan_for_editing(TreeBeforeSave, log'[Len(log')].typed)
          /\ \A m \in 1..Len(log'[Len(log')].shown) :
                log'[Len(log')].shown[m] # "success"]_vars

(***************************************************************************)
(* SpecPrompt: up to MaxBuilds calls of the two stage prompt builders,     *)
(* between which the text input "Enter the subject name:" may be changed.  *)
(***************************************************************************)
MaxBuilds == 2

\* what is typed into the subject input
Subjects == {<<"S">>, <<"M">>}

\* the arguments the builders are called with
PromptTopics ==
    {[id |-> <<1>>, key |-> "subtopics", description |-> <<"a">>, kids |-> <<>>],
     [id |-> <<1, 1>>, key |-> "subsubtopics", description |-> <<"b">>, kids |-> <<>>]}
PromptParents == {<<>>, <<<<IdText(<<1>>), <<"a">>>>>>}
PromptEntries == {NoneEntry, SomeEntry(<<"a">>)}
PromptDepths == {1, 2}

InitPrompt ==
    /\ NoParse
    /\ generation_cache = <<>>
    /\ subject \in Subjects
    /\ contexts = <<>>
    /\ pc = "build"
    /\ work = <<>>
    /\ lesson_plan = <<>>
    /\ processed_ids = {}
    /\ total_items = 0
    /\ item_count = 0
    /\ progress = <<>>
    /\ document_text = <<>>
    /\ log = <<>>
    /\ llm_calls = <<>>
    /\ last = <<>>
    /\ NoOutput

\* lines 797-798: a run of the script after the subject input was changed
EnterSubject ==
    /\ pc = "build"
    /\ \E typed \in Subjects \ {subject} : subject' = typed
    /\ UNCHANGED <<parseVars, generation_cache, contexts, pc, work, lesson_plan,
                   processed_ids, total_items, item_count, progress, document_text,
                   log, llm_calls, last, outVars>>

\* line 230: a call of build_prompt_with_hierarchy
BuildPromptWithHierarchy ==
    /\ pc = "build"
    /\ Len(log) < MaxBuilds
    /\ \E subj \in Subjects, topic_data \in PromptTopics, parent \in PromptParents,
          depth \in PromptDepths :
          log' = Append(log,
                   [stage |-> "build", fn |-> "build_prompt_with_hierarchy",
                    args |-> <<subj, Difficulty, topic_data, parent, depth>>,
                    ret |-> build_prompt_with_hierarchy(subj, Difficulty, topic_data,
                                                        parent, depth)])
    /\ UNCHANGED <<parseVars, generation_cache, subject, contexts, pc, work, lesson_plan,
                   processed_ids, total_items, item_count, progress, document_text,
                   llm_calls, last, outVars>>

\* line 707: a call of create_lecture_notes_prompt
CreateLectureNotesPrompt ==
    /\ pc = "build"
    /\ Len(log) < MaxBuilds
    /\ \E lesson_plan_entry \in PromptEntries, topic_data \in PromptTopics,
          parent \in PromptParents :
          log' = Append(log,
                   [stage |-> "build", fn |-> "create_lecture_notes_prompt",
                    args |-> <<lesson_plan_entry, topic_data.id, Difficulty, <<>>, parent>>,
                    ret |-> create_lecture_notes_prompt(lesson_plan_entry, topic_data.id,
                                                        Difficulty, <<>>, parent)])
    /\ UNCHANGED <<parseVars, generation_cache, subject, contexts, pc, work, lesson_plan,
                   processed_ids, total_items, item_count, progress, document_text,
                   llm_calls, last, outVars>>

NextPrompt == EnterSubject \/ BuildPromptWithHierarchy \/ CreateLectureNotesPrompt

SpecPrompt == InitPrompt /\ [][NextPrompt]_vars

\* C26: two calls of a prompt builder with equal arguments return equal
\* prompts, whatever the session holds at the time of the call, and the
\* builders make no request to the service and leave the cache alone
C26_BuildersPure ==
    /\ \A i, j \in 1..Len(log) :
          log[i].fn = log[j].fn /\ log[i].args = log[j].args => log[i].ret = log[j].ret
    /\ llm_calls = <<>>
    /\ generation_cache = <<>>

\* the number of '#' characters a line starts with
LeadingHashes(para) == Len(para) - Len(LStripChars(para, {"#"}))

\* C27: a line outside a code block that starts with n >= 1 '#' characters
\* gives one heading whose level is n, whatever '#' occurs later in the line,
\* and whose text is the rest of the line after the leading markers
C27_HeadingLevelIsLeadingHashes ==
    DocxDone =>
        \A k \in 1..Len(Paragraphs) :
            LET para == Strip(Paragraphs[k])
                n == LeadingHashes(para)
            IN  n >= 1 /\ ~InCodeBlock(k) =>
                  /\ Len(ElementsOf(k)) = 1
                  /\ ElementsOf(k)[1].kind = "heading"
                  /\ ElementsOf(k)[1].level = n
                  /\ ElementsOf(k)[1].text = Strip(SubSeq(para, n + 1, Len(para)))

(***************************************************************************)
(* The app.py variant: the flat "->" lesson plan and its notes document.   *)
(* lesson_plan holds st.session_state.lesson_plan_structure, a dict from   *)
(* topic to a dict from subtopic to the list of its sub-subtopics;         *)
(* document_text holds the edited lesson plan text and docx the saved      *)
(* document detailed_notes.docx.                                           *)
(***************************************************************************)
Arrow == <<"-", ">">>

\* d[k] of a dict that has the key
DictGet(d, k) == d[CHOOSE i \in 1..Len(d) : d[i][1] = k][2]

\* app.py lines 184-198: one line of the loop of parse_lesson_plan
ParsePlanLine(st, raw) ==
    LET line == Strip(raw)
        parts == [p \in 1..Len(Split(line, Arrow)) |-> Strip(Split(line, Arrow)[p])]
        arrows == Len(parts) - 1
    IN  IF line = <<>> THEN st
        ELSE IF arrows = 0
        THEN [structure |-> DictSet(st.structure, line, <<>>),
              topic |-> SomeEntry(line), subtopic |-> NoneEntry]
        ELSE IF arrows = 1
        THEN IF SomeEntry(parts[1]) = st.topic
             THEN [st EXCEPT !.structure =
                                DictSet(@, parts[1],
                                        DictSet(DictGet(@, parts[1]), parts[2], <<>>)),
                             !.subtopic = SomeEntry(parts[2])]
             ELSE st
        ELSE IF arrows = 2
        THEN IF SomeEntry(parts[1]) = st.topic /\ SomeEntry(parts[2]) = st.subtopic
             THEN [st EXCEPT !.structure =
                                DictSet(@, parts[1],
                                        DictSet(DictGet(@, parts[1]), parts[2],
                                                Append(DictGet(DictGet(@, parts[1]),
                                                               parts[2]),
                                                       parts[3])))]
             ELSE st
        ELSE st

RECURSIVE ParsePlanLines(_, _)
ParsePlanLines(st, ls) ==
    IF ls = <<>> THEN st ELSE ParsePlanLines(ParsePlanLine(st, Head(ls)), Tail(ls))

\* app.py lines 179-199
parse_lesson_plan(lesson_plan_text) ==
    ParsePlanLines([structure |-> <<>>, topic |-> NoneEntry, subtopic |-> NoneEntry],
                   Split(Strip(lesson_plan_text), <<"\n">>)).structure

\* an element of the notes document
NotesElement(kind, level, text) == [kind |-> kind, level |-> level, text |-> text]

\* the slides of a structure, as <<topic, subtopic, sub_subtopic>>, in the
\* order of the loops of lines 138-156
RECURSIVE SlidesOf(_)
SlidesOf(structure) ==
    IF structure = <<>> THEN <<>>
    ELSE LET topic == Head(structure)[1]
             subtopics == Head(structure)[2]
             under(s) == [k \in 1..Len(subtopics[s][2]) |->
                            <<topic, subtopics[s][1], subtopics[s][2][k]>>]
             RECURSIVE all(_)
             all(s) == IF s > Len(subtopics) THEN <<>> ELSE under(s) \o all(s + 1)
         IN  all(1) \o SlidesOf(Tail(structure))

\* app.py lines 133-135: the generator of the sum reads `subtopic`, a local
\* of create_detailed_notes_docx that only the loop of line 143 binds; the
\* read raises NameError at the first item whose value is a dict, and
\* parse_lesson_plan makes every value a dict
total_slides(structure) ==
    IF structure = <<>> THEN [raised |-> FALSE, v |-> 0] ELSE [raised |-> TRUE, v |-> 0]

\* app.py lines 145-154: the k-th sub-subtopic the loops meet; `failed` holds
\* the requests the service fails (generate_slide_content and
\* generate_image_prompt then return None), each named by its kind and by
\* the place k of its sub-subtopic among the ones the loops meet
SlideElements(slide, k, failed) ==
    IF <<"slide", k>> \in failed THEN <<>>
    ELSE <<NotesElement("heading", 4, slide[3]), NotesElement("para", 0, slide)>>
         \o (IF <<"image", k>> \in failed THEN <<>>
             ELSE <<NotesElement("quote", 0, slide)>>)

\* app.py lines 138-156: the loops over topics, subtopics and sub-subtopics,
\* after `done` sub-subtopics of earlier topics (the branch of lines 157-161
\* needs a value that is no dict, which parse_lesson_plan never makes)
RECURSIVE NotesBody(_, _, _)
NotesBody(structure, failed, done) ==
    IF structure = <<>> THEN <<>>
    ELSE LET topic == Head(structure)[1]
             subtopics == Head(structure)[2]
             before(s) == done + Len(SlidesOf(<<<<topic, SubSeq(subtopics, 1, s - 1)>>>>))
             RECURSIVE each(_, _)
             each(s, k) ==
                 IF k > Len(subtopics[s][2]) THEN <<>>
                 ELSE SlideElements(<<topic, subtopics[s][1], subtopics[s][2][k]>>,
                                    before(s) + k, failed)
                      \o each(s, k + 1)
             RECURSIVE all(_)
             all(s) == IF s > Len(subtopics) THEN <<>>
                       ELSE <<NotesElement("heading", 3, subtopics[s][1])>>
                            \o each(s, 1) \o all(s + 1)
         IN  <<NotesElement("heading", 2, topic)>> \o all(1)
             \o NotesBody(Tail(structure), failed,
                          done + Len(SlidesOf(<<Head(structure)>>)))

\* app.py lines 130-167: the document saved and the file name returned, or
\* the exception that ends the call, before document.save or in it (no try
\* block here); `opened` tells whether the file has been opened for writing
create_detailed_notes_docx(lesson_plan_structure, failed, save) ==
    IF total_slides(lesson_plan_structure).raised \/ save = "raise_open"
    THEN [raised |-> TRUE, ret |-> "", opened |-> FALSE, doc |-> <<>>]
    ELSE IF save = "raise_write"
    THEN [raised |-> TRUE, ret |-> "", opened |-> TRUE, doc |-> <<>>]
    ELSE [raised |-> FALSE, ret |-> "detailed_notes.docx", opened |-> TRUE,
          doc |-> <<NotesElement("heading", 1, <<"Detailed Course Notes">>)>>
                  \o NotesBody(lesson_plan_structure, failed, 0)]

MaxNotesLines == 4

\* the lines of the edited lesson plan texts
NotesLines ==
    { <<"A">>, <<"B">>,
      <<"A", "-", ">", "b">>,
      <<"A", " ", "-", ">", " ", "b", " ", "-", ">", "c">>,
      <<"B", "-", ">", "b">>,
      <<>> }

NotesTexts == {Join(ls, <<"\n">>) : ls \in [1..MaxNotesLines -> NotesLines]}

\* the text area "Edit Lesson Plan" holds a text
InitNotesDocx ==
    /\ NoParse
    /\ generation_cache = <<>>
    /\ subject = <<"S">>
    /\ contexts = <<>>
    /\ work = <<>>
    /\ pc = "plan_text"
    /\ lesson_plan = <<>>
    /\ processed_ids = {}
    /\ total_items = 0
    /\ item_count = 0
    /\ progress = <<>>
    /\ document_text \in NotesTexts
    /\ log = <<>>
    /\ llm_calls = <<>>
    /\ last = <<>>
    /\ NoOutput

\* app.py lines 228-230: the button "Save Edited Lesson Plan" stores the
\* parsed structure in the session
ParseLessonPlan ==
    /\ pc = "plan_text"
    /\ lesson_plan' = parse_lesson_plan(document_text)
    /\ pc' = "structured"
    /\ UNCHANGED <<parseVars, generation_cache, subject, contexts, work, processed_ids,
                   total_items, item_count, progress, document_text, log, llm_calls,
                   last, outVars>>

\* app.py lines 245-256: the button "Generate Detailed Notes", shown when the
\* stored structure is not empty
CreateDetailedNotesDocx ==
    /\ pc = "structured"
    /\ lesson_plan # <<>>
    /\ \E failed \in SUBSET ({"slide", "image"} \X (1..Len(SlidesOf(lesson_plan)))),
          save \in DocSaveOutcomes :
          LET res == create_detailed_notes_docx(lesson_plan, failed, save)
          IN  /\ docx' = FileAfter(docx, res)
              /\ log' = Append(log, [stage |-> "notes_docx",
                                     kind |-> IF res.raised THEN "raise" ELSE "ok",
                                     ret |-> res.ret, failed |-> failed])
              /\ session_state' = IF res.raised THEN session_state
                                  ELSE SessionWith(session_state, NotesFilenameKey, res.ret)
    /\ pc' = "notes_docx_done"
    /\ UNCHANGED <<parseVars, generation_cache, subject, contexts, work, lesson_plan,
                   processed_ids, total_items, item_count, progress, document_text,
                   llm_calls, last, json_file>>

NextNotesDocx == ParseLessonPlan \/ CreateDetailedNotesDocx

SpecNotesDocx == InitNotesDocx /\ [][NextNotesDocx]_vars

\* C28: create_detailed_notes_docx called on a non-empty structure returned
\* by parse_lesson_plan runs to completion and returns the name of the saved
\* document, whichever slide or image-prompt requests fail
C28_NotesDocumentAlwaysProduced ==
    pc = "notes_docx_done" /\ lesson_plan # <<>> =>
        /\ log[Len(log)].kind = "ok"
        /\ log[Len(log)].ret = "detailed_notes.docx"
        /\ docx # <<>>

====
